---- MODULE Spec2Model ----
(***************************************************************************)
(* Verification model of FFMPEG_TIMESLAP (src/src/ffmpeg_timeslap).        *)
(*                                                                         *)
(* Part 1: FFmpegEncoder (core/encoder.py) with ProgressParser             *)
(*         (core/progress_parser.py), driven either through the library    *)
(*         protocol or by MainWindow (gui/main_window.py).                 *)
(* Part 2: FFmpegCommandBuilder (core/command_builder.py).                 *)
(*                                                                         *)
(* Text is modelled as a sequence of atoms (TLA+ strings): an atom is a    *)
(* literal piece of text that is never split further, a single digit, or   *)
(* one of the separators "," " " "." "-".                                  *)
(***************************************************************************)
EXTENDS Integers, Sequences, FiniteSets, TLC

VARIABLES
    harness,        \* who drives the encoder: "lib" (direct calls) or "app" (MainWindow)
    raising,        \* TRUE iff the installed callbacks may raise
    inst,           \* number of FFmpegEncoder objects constructed so far (0: none)
    process,        \* self.process of the current encoder: 0 (None) or a pid
    total_frames,   \* self.parser.total_frames: 0 (None) or the sequence count
    procs,          \* the subprocesses spawned so far, indexed by pid
    wpc,            \* worker thread inside wait_for_completion: "idle" | "loop" | "wait"
    w_iter,         \* pid whose stdout the read loop iterates (0 outside the call)
    wret,           \* last return value of wait_for_completion: "None" | "True" | "False"
    cpc,            \* caller inside cancel_encoding: "idle" | "terminate" | "wait"
    ncancel,        \* number of cancel_encoding calls made on the current encoder
    sret,           \* last return value of start_encoding: "None" | "True" | "False" | "Raised"
    fin,            \* on_finished invocations of the current run, in order
    last,           \* callbacks invoked for the line read last
    is_encoding,    \* EncodingWidget.is_encoding
    signals,        \* queued EncodingSignals.finished emissions not yet delivered
    reported,       \* terminal states shown to the user for the current encode
    config,         \* the EncodingConfig handed to the command builder
    command_parts,  \* FFmpegCommandBuilder.command_parts
    built,          \* the argument lists returned by build() for the current config
    arg,            \* the argument of the utility function under study
    ret             \* what the call of that function returned or raised

encVars == <<harness, raising, inst, process, total_frames, procs, wpc, w_iter, wret,
             cpc, ncancel, sret, fin, last>>
guiVars == <<is_encoding, signals, reported>>
bldVars == <<config, command_parts, built>>
utilVars == <<arg, ret>>
vars == <<harness, raising, inst, process, total_frames, procs, wpc, w_iter, wret,
          cpc, ncancel, sret, fin, last, is_encoding, signals, reported,
          config, command_parts, built, arg, ret>>

-----------------------------------------------------------------------------
(* Bounds of the model.                                                    *)

MaxSpawns == 2
MaxLines == 2
MaxCancels == 1

-----------------------------------------------------------------------------
(* Text helpers.                                                           *)

Digits == <<"0", "1", "2", "3", "4", "5", "6", "7", "8", "9">>

DigitSet == {Digits[i] : i \in 1..10}

DigitVal(d) == (CHOOSE i \in 1..10 : Digits[i] = d) - 1

RECURSIVE NatStr(_)
NatStr(n) == IF n < 10 THEN <<Digits[n + 1]>>
             ELSE NatStr(n \div 10) \o <<Digits[(n % 10) + 1]>>

\* str(n) of a Python int
Str(n) == IF n < 0 THEN <<"-">> \o NatStr(0 - n) ELSE NatStr(n)

RECURSIVE StrNat(_)
\* int(s) of a non-empty digit string
StrNat(s) == IF Len(s) = 1 THEN DigitVal(s[1])
             ELSE 10 * StrNat(SubSeq(s, 1, Len(s) - 1)) + DigitVal(s[Len(s)])

\* needle occurs in hay as a contiguous piece
Contains(hay, needle) ==
    \E i \in 1..(Len(hay) - Len(needle) + 1) :
        SubSeq(hay, i, i + Len(needle) - 1) = needle

Min(a, b) == IF a < b THEN a ELSE b

-----------------------------------------------------------------------------
(* ProgressParser.                                                         *)

NoFrame == -1

\* The lines the subprocess may print; line 1 stands for bytes that cannot be
\* decoded, so that reading it raises.
LineText == <<
    <<"\\xff">>,
    <<"frame=", " ", " ", "0", " ", "fps=", "0", ".", "0">>,
    <<"frame=", " ", "5", " ", "fps=", "2", "5">>,
    <<"Input", " ", "#", "0", ",", " ", "image2">>,
    <<"x", "frame=", "1", "2", " ", "frame=", "3">> >>

Undecodable == 1

LineIds == 1..Len(LineText)

\* first index >= j of text that is not whitespace (Len+1 if none): \s*
SkipSpaces(text, j) ==
    IF \E k \in j..Len(text) : text[k] # " "
    THEN CHOOSE k \in j..Len(text) :
            text[k] # " " /\ \A m \in j..(k - 1) : text[m] = " "
    ELSE Len(text) + 1

\* last index of the digit run starting at j: (\d+), greedy
DigitsEnd(text, j) ==
    CHOOSE k \in j..Len(text) :
        /\ \A m \in j..k : text[m] \in DigitSet
        /\ (k = Len(text) \/ text[k + 1] \notin DigitSet)

\* re.compile(r'frame=\s*(\d+)') matches at position i
FrameMatchAt(text, i) ==
    /\ text[i] = "frame="
    /\ SkipSpaces(text, i + 1) <= Len(text)
    /\ text[SkipSpaces(text, i + 1)] \in DigitSet

\* frame_pattern.search(text): the leftmost match, int(group(1)); NoFrame if none
ParseFrame(text) ==
    IF \E i \in 1..Len(text) : FrameMatchAt(text, i)
    THEN LET i == CHOOSE k \in 1..Len(text) :
                    FrameMatchAt(text, k) /\ \A m \in 1..(k - 1) : ~FrameMatchAt(text, m)
             j == SkipSpaces(text, i + 1)
         IN  StrNat(SubSeq(text, j, DigitsEnd(text, j)))
    ELSE NoFrame

NoPercent == -1

\* the truthiness test of parse_output: `if self.total_frames and info.current_frame`
PercentageKnown(total, frame) == total # 0 /\ frame # NoFrame /\ frame # 0

\* The percentages k for which the double arithmetic of (k / 100) * 100 ends
\* just below k: 0.29 * 100, 0.57 * 100 and 0.58 * 100 are 28.999..., 56.999...
\* and 57.999... in IEEE 754 binary64, and int() truncates them.
FloatShort == {29, 57, 58}

\* int((frame / total) * 100) in binary64 arithmetic, frame >= 0, total > 0.
\* frame / total is the double nearest to the quotient and the product is
\* rounded once more; the two roundings can only matter when 100 * frame / total
\* is an integer k, and then the result depends on k alone: it is k - 1 for the
\* k of FloatShort and k otherwise.
FloatPercent(frame, total) ==
    LET k == (frame * 100) \div total
    IN  IF (frame * 100) % total = 0 /\ k \in FloatShort THEN k - 1 ELSE k

\* min(int((frame / total) * 100), 100) where it is computed (lines 65-66)
Percentage(total, frame) ==
    IF PercentageKnown(total, frame)
    THEN Min(FloatPercent(frame, total), 100)
    ELSE NoPercent

\* ProgressParser.parse_output: the fields the encoder reads
parse_output(total, text) ==
    [current_frame |-> ParseFrame(text),
     percentage |-> Percentage(total, ParseFrame(text))]

-----------------------------------------------------------------------------
(* The subprocess (subprocess.Popen) and its merged stdout pipe.           *)

\* exit codes an encoder run ends with by itself
ExitCodes == {0, 1}

SIGTERM == 15
SIGKILL == 9

NewProc(owner) ==
    [owner |-> owner,       \* the FFmpegEncoder object that spawned it
     alive |-> TRUE,
     rc |-> 0,              \* returncode, meaningful once alive = FALSE
     buf |-> <<>>,          \* lines written to the pipe and not yet read
     nout |-> 0,            \* lines written so far
     term |-> FALSE,        \* terminate() reached the running process
     killed |-> FALSE]      \* kill() reached the running process

Pids == 1..Len(procs)

\* what is left of a subprocess that has exited once no encoder holds its Popen
\* object any more
Reaped ==
    [owner |-> 0, alive |-> FALSE, rc |-> 0, buf |-> <<>>, nout |-> 0,
     term |-> FALSE, killed |-> FALSE]

\* a subprocess still running whose encoder was dropped: its pipe is read no more
Orphan(pr) == [pr EXCEPT !.buf = <<>>, !.nout = 0]

\* the subprocesses as a newly constructed encoder finds them: the encoder it
\* replaces is dropped (main_window.py:436)
Forget(ps) == [p \in 1..Len(ps) |-> IF ps[p].alive THEN Orphan(ps[p]) ELSE Reaped]

\* Popen.poll() is None
Running(p) == procs[p].alive

\* the subprocess prints one more line (lines of a subprocess no encoder reads
\* any more are not tracked)
ProcWrite(p, l) ==
    /\ Running(p)
    /\ p \in {process, w_iter}
    /\ ~procs[p].killed
    /\ procs[p].nout < MaxLines
    /\ procs' = [procs EXCEPT ![p].buf = Append(@, l), ![p].nout = @ + 1]
    /\ UNCHANGED <<harness, raising, inst, process, total_frames, wpc, w_iter, wret,
                   cpc, ncancel, sret, fin, last>>
    /\ UNCHANGED guiVars
    /\ UNCHANGED <<bldVars, utilVars>>

\* the codes the subprocess can end with: -signal when a signal ends it, its own
\* code when it finishes (also after handling SIGTERM itself)
ExitChoices(p) ==
    IF procs[p].killed THEN {0 - SIGKILL}
    ELSE IF procs[p].term THEN {0 - SIGTERM} \cup ExitCodes
    ELSE ExitCodes

\* the subprocess exits, which also closes its end of the pipe
ProcExit(p, rc) ==
    /\ Running(p)
    /\ rc \in ExitChoices(p)
    /\ procs' = IF p \in {process, w_iter}
                 THEN [procs EXCEPT ![p].alive = FALSE, ![p].rc = rc]
                 ELSE [procs EXCEPT ![p] = Reaped]
    /\ UNCHANGED <<harness, raising, inst, process, total_frames, wpc, w_iter, wret,
                   cpc, ncancel, sret, fin, last>>
    /\ UNCHANGED guiVars
    /\ UNCHANGED <<bldVars, utilVars>>

-----------------------------------------------------------------------------
(* FFmpegEncoder.                                                          *)

MsgCompleted == <<"Encoding completed successfully!">>

MsgFailedCode(rc) == <<"Encoding failed with code ">> \o Str(rc)

MsgError(e) == <<"Error during encoding: ", e>>

MsgStartFailed(e) == <<"Failed to start encoding: ", e>>

\* one invocation of on_finished(success, message); via names the call site
\* ("start": line 86, "exit": lines 122/124, "error": line 130) and pid the
\* process whose return code was read (0 if none)
FinEvent(success, msg, via, pid) ==
    [success |-> success, msg |-> msg, via |-> via, pid |-> pid]

\* whether an installed callback raises when invoked
RaiseChoice == IF raising THEN {FALSE, TRUE} ELSE {FALSE}

NoLast == [line |-> 0, progress |-> NoPercent, output |-> <<>>]

\* totals FFmpegEncoder.__init__ hands to the parser: None or sequence_info.count
TotalChoices == {0, 10}

RetOf(b) == IF b THEN "True" ELSE "False"

\* the completion callback as MainWindow installs it (main_window.py:441) emits
\* EncodingSignals.finished; emitted off the GUI thread the emission is queued
Emit(q, e) == IF harness = "app" THEN Append(q, e) ELSE q

\* a faulty variant of start_encoding: the Popen object is kept although the
\* start failed
start_encoding_keep(ps, cur, owner, ok, r) ==
    /\ procs' = Append(ps, NewProc(owner))
    /\ process' = Len(ps) + 1
    /\ fin' = IF ok THEN <<>>
              ELSE <<FinEvent(FALSE, MsgStartFailed("OSError"), "start", 0)>>
    /\ sret' = IF ok THEN "True" ELSE IF r THEN "Raised" ELSE "False"
    /\ last' = NoLast
    /\ wret' = "None"

\* FFmpegEncoder.start_encoding on an encoder whose self.process is cur and whose
\* identity is owner, ps being the subprocesses so far; ok: Popen succeeds; r: on_finished raises
start_encoding(ps, cur, owner, ok, r) ==
    /\ procs' = IF ok THEN Append(ps, NewProc(owner)) ELSE ps
    /\ process' = IF ok THEN Len(ps) + 1 ELSE cur
    /\ fin' = IF ok THEN <<>>
              ELSE <<FinEvent(FALSE, MsgStartFailed("OSError"), "start", 0)>>
    /\ sret' = IF ok THEN "True" ELSE IF r THEN "Raised" ELSE "False"
    /\ last' = NoLast
    /\ wret' = "None"

\* the caller constructs an FFmpegEncoder and calls start_encoding
LibStart(ok, total, r) ==
    /\ harness = "lib"
    /\ wpc = "idle" /\ cpc = "idle"
    /\ inst < MaxSpawns
    /\ inst = 0 \/ sret # "True" \/ wret # "None"
    /\ inst' = inst + 1
    /\ total_frames' = total
    /\ r \in RaiseChoice
    /\ ncancel' = 0
    /\ start_encoding(Forget(procs), 0, inst + 1, ok, r)
    /\ UNCHANGED <<harness, raising, wpc, w_iter, cpc>>
    /\ UNCHANGED guiVars
    /\ UNCHANGED <<bldVars, utilVars>>

\* the caller starts wait_for_completion after a successful start (lines 96-99)
WaitCall ==
    /\ harness = "lib"
    /\ wpc = "idle"
    /\ sret = "True" /\ wret = "None"
    /\ IF process = 0
       THEN wret' = "False" /\ UNCHANGED <<wpc, w_iter>>
       ELSE wpc' = "loop" /\ w_iter' = process /\ UNCHANGED wret
    /\ UNCHANGED <<harness, raising, inst, process, total_frames, procs,
                   cpc, ncancel, sret, fin, last>>
    /\ UNCHANGED guiVars
    /\ UNCHANGED <<bldVars, utilVars>>

\* a faulty variant of the except clause: the failure is reported and the read
\* loop goes on
HandlerContinue(e, r) ==
    /\ fin' = Append(fin, FinEvent(FALSE, MsgError(e), "error", 0))
    /\ signals' = Emit(signals, FinEvent(FALSE, MsgError(e), "error", 0))
    /\ UNCHANGED <<wret, wpc, w_iter>>

\* the except clause of wait_for_completion (lines 128-131); r: on_finished raises
Handler(e, r) ==
    /\ fin' = Append(fin, FinEvent(FALSE, MsgError(e), "error", 0))
    /\ signals' = Emit(signals, FinEvent(FALSE, MsgError(e), "error", 0))
    /\ wret' = IF r THEN "Raised" ELSE "False"
    /\ wpc' = "idle"
    /\ w_iter' = 0

\* on_progress is invoked for a parsed line (line 106)
ProgressInvoked(info) == info.percentage # NoPercent

\* what on_output receives for a line (line 111)
OutputArg(l) == LineText[l]

\* one iteration of the read loop (lines 101-111); r1: on_progress raises,
\* r2: on_output raises, r3: on_finished raises in the except clause
WReadLine(r1, r2, r3) ==
    /\ wpc = "loop"
    /\ procs[w_iter].buf # <<>>
    /\ r1 \in RaiseChoice /\ r2 \in RaiseChoice /\ r3 \in RaiseChoice
    /\ LET l == Head(procs[w_iter].buf)
           info == parse_output(total_frames, LineText[l])
           prog == IF ProgressInvoked(info) THEN info.percentage ELSE NoPercent
       IN  /\ procs' = [procs EXCEPT ![w_iter].buf = Tail(@)]
           /\ IF l = Undecodable
              THEN /\ last' = NoLast
                   /\ Handler("UnicodeDecodeError", r3)
              ELSE IF ProgressInvoked(info) /\ r1
              THEN /\ last' = [line |-> l, progress |-> prog, output |-> <<>>]
                   /\ Handler("CallbackError", r3)
              ELSE IF r2
              THEN /\ last' = [line |-> l, progress |-> prog, output |-> OutputArg(l)]
                   /\ Handler("CallbackError", r3)
              ELSE /\ last' = [line |-> l, progress |-> prog, output |-> OutputArg(l)]
                   /\ UNCHANGED <<fin, signals, wret, wpc, w_iter>>
    /\ UNCHANGED <<harness, raising, inst, process, total_frames, cpc, ncancel, sret>>
    /\ UNCHANGED <<is_encoding, reported>>
    /\ UNCHANGED <<bldVars, utilVars>>

\* the pipe reports end of file: the loop ends (line 101)
WReadEOF ==
    /\ wpc = "loop"
    /\ procs[w_iter].buf = <<>>
    /\ ~Running(w_iter)
    /\ wpc' = "wait"
    /\ UNCHANGED <<harness, raising, inst, process, total_frames, procs, w_iter, wret,
                   cpc, ncancel, sret, fin, last>>
    /\ UNCHANGED guiVars
    /\ UNCHANGED <<bldVars, utilVars>>

\* a faulty variant of the success test: a negative return code (death by
\* signal) counts as success
SuccessNonPositive(rc) == rc <= 0

\* success = (return_code == 0) (line 117)
Success(rc) == rc = 0

\* the message of the completion callback after process.wait() (lines 121-124)
ExitMessage(rc) == IF Success(rc) THEN MsgCompleted ELSE MsgFailedCode(rc)

\* the on_finished calls of lines 120-131 once return_code is known; r1: the call
\* in the try body raises, which the except clause answers with a second call
FinishCalls(rc, pid, r1) ==
    IF r1
    THEN <<FinEvent(Success(rc), ExitMessage(rc), "exit", pid),
           FinEvent(FALSE, MsgError("CallbackError"), "error", 0)>>
    ELSE <<FinEvent(Success(rc), ExitMessage(rc), "exit", pid)>>

\* process.wait() returns and the outcome is reported (lines 114-131); r2: the
\* call in the except clause raises
WFinish(r1, r2) ==
    /\ wpc = "wait"
    /\ ~Running(process)
    /\ r1 \in RaiseChoice /\ r2 \in RaiseChoice
    /\ r2 => r1
    /\ LET rc == procs[process].rc
           calls == FinishCalls(rc, process, r1)
       IN  /\ fin' = fin \o calls
           /\ signals' = IF harness = "app" THEN signals \o calls ELSE signals
           /\ wret' = IF r2 THEN "Raised" ELSE IF r1 THEN "False" ELSE RetOf(Success(rc))
    /\ wpc' = "idle"
    /\ w_iter' = 0
    /\ UNCHANGED <<harness, raising, inst, process, total_frames, procs,
                   cpc, ncancel, sret, last>>
    /\ UNCHANGED <<is_encoding, reported>>
    /\ UNCHANGED <<bldVars, utilVars>>

\* the status bar text of MainWindow.on_cancel_requested (main_window.py:430),
\* shown when cancel_encoding has returned
AfterCancel == IF harness = "app" THEN reported \cup {"Cancelled"} ELSE reported

\* a faulty variant of the guard of cancel_encoding: poll() is not consulted
CancelGuardNoPoll == process # 0

\* the guard of cancel_encoding (line 135)
CancelGuard == process # 0 /\ Running(process)

\* cancel_encoding is called (line 135); from the GUI only while the widget is
\* in its encoding state (encoding_widget.py:79, main_window.py:428)
CancelCall ==
    /\ cpc = "idle"
    /\ ncancel < MaxCancels
    /\ inst > 0
    /\ harness = "app" => is_encoding
    /\ ncancel' = ncancel + 1
    /\ IF CancelGuard
       THEN cpc' = "terminate" /\ UNCHANGED reported
       ELSE cpc' = "idle" /\ reported' = AfterCancel
    /\ UNCHANGED <<harness, raising, inst, process, total_frames, procs, wpc, w_iter,
                   wret, sret, fin, last>>
    /\ UNCHANGED <<is_encoding, signals>>
    /\ UNCHANGED <<bldVars, utilVars>>

\* a faulty variant of line 136: no graceful termination is requested
CancelTerminateSkip ==
    /\ cpc = "terminate"
    /\ cpc' = "wait"
    /\ UNCHANGED <<harness, raising, inst, process, total_frames, procs, wpc, w_iter,
                   wret, ncancel, sret, fin, last>>
    /\ UNCHANGED guiVars
    /\ UNCHANGED <<bldVars, utilVars>>

\* self.process.terminate() (line 136); it signals only a process still running
CancelTerminate ==
    /\ cpc = "terminate"
    /\ procs' = IF Running(process) THEN [procs EXCEPT ![process].term = TRUE] ELSE procs
    /\ cpc' = "wait"
    /\ UNCHANGED <<harness, raising, inst, process, total_frames, wpc, w_iter, wret,
                   ncancel, sret, fin, last>>
    /\ UNCHANGED guiVars
    /\ UNCHANGED <<bldVars, utilVars>>

\* self.process.wait(timeout=5) returns: the process has exited (line 138)
CancelWaitReturns ==
    /\ cpc = "wait"
    /\ ~Running(process)
    /\ cpc' = "idle"
    /\ reported' = AfterCancel
    /\ UNCHANGED <<harness, raising, inst, process, total_frames, procs, wpc, w_iter,
                   wret, ncancel, sret, fin, last>>
    /\ UNCHANGED <<is_encoding, signals>>
    /\ UNCHANGED <<bldVars, utilVars>>

\* TimeoutExpired: the process is still running, kill() (lines 139-140)
CancelWaitTimeout ==
    /\ cpc = "wait"
    /\ Running(process)
    /\ procs' = [procs EXCEPT ![process].killed = TRUE]
    /\ cpc' = "idle"
    /\ reported' = AfterCancel
    /\ UNCHANGED <<harness, raising, inst, process, total_frames, wpc, w_iter,
                   wret, ncancel, sret, fin, last>>
    /\ UNCHANGED <<is_encoding, signals>>
    /\ UNCHANGED <<bldVars, utilVars>>

-----------------------------------------------------------------------------
(* MainWindow and EncodingWidget: the application driving the encoder.     *)

\* the terminal state MainWindow.on_encoding_finished shows (lines 481-496)
Shown(e) == IF e.success THEN "Completed" ELSE "Failed"

\* Start is clicked while the widget is not encoding (encoding_widget.py:74):
\* MainWindow.start_encoding (lines 432-467) builds a new FFmpegEncoder, calls
\* start_encoding and on success starts the thread that runs wait_for_completion;
\* a start failure emits finished on the GUI thread, so the slot runs at once
GuiStart(ok, total) ==
    /\ harness = "app"
    /\ ~is_encoding
    /\ cpc = "idle"
    /\ inst < MaxSpawns
    /\ inst' = inst + 1
    /\ total_frames' = total
    /\ start_encoding(Forget(procs), 0, inst + 1, ok, FALSE)
    /\ IF ok
       THEN /\ is_encoding' = TRUE
            /\ reported' = {}
            /\ wpc' = "loop"
            /\ w_iter' = Len(procs) + 1
       ELSE /\ is_encoding' = FALSE
            /\ reported' = {"Failed"}
            /\ UNCHANGED <<wpc, w_iter>>
    /\ ncancel' = 0
    /\ UNCHANGED <<harness, raising, cpc, signals>>
    /\ UNCHANGED <<bldVars, utilVars>>

\* the GUI thread delivers a queued finished signal to on_encoding_finished
\* (lines 477-496), whose show_completion_message leaves the encoding state
GuiDeliver ==
    /\ harness = "app"
    /\ cpc = "idle"
    /\ signals # <<>>
    /\ signals' = Tail(signals)
    /\ is_encoding' = FALSE
    /\ reported' = reported \cup {Shown(Head(signals))}
    /\ UNCHANGED encVars
    /\ UNCHANGED <<bldVars, utilVars>>

\* start_encoding is called again on the encoder in use
ApiRestart(ok) ==
    /\ harness = "lib"
    /\ cpc = "idle"
    /\ inst > 0
    /\ Len(procs) < MaxSpawns
    /\ start_encoding(procs, process, inst, ok, FALSE)
    /\ UNCHANGED <<harness, raising, inst, total_frames, wpc, w_iter, cpc, ncancel>>
    /\ UNCHANGED guiVars
    /\ UNCHANGED <<bldVars, utilVars>>

-----------------------------------------------------------------------------
(* Specifications of the encoder.                                          *)

\* no utility call is under study
NoCall == [kind |-> "nocall"]

NoConfig == [none |-> TRUE]

InitEncoder ==
    /\ inst = 0
    /\ process = 0
    /\ total_frames = 0
    /\ procs = <<>>
    /\ wpc = "idle"
    /\ w_iter = 0
    /\ wret = "None"
    /\ cpc = "idle"
    /\ ncancel = 0
    /\ sret = "None"
    /\ fin = <<>>
    /\ last = NoLast
    /\ is_encoding = FALSE
    /\ signals = <<>>
    /\ reported = {}
    /\ config = NoConfig
    /\ command_parts = <<>>
    /\ built = <<>>
    /\ arg = NoCall
    /\ ret = NoCall

\* the encoder used through its methods, with callbacks that return normally
Init == harness = "lib" /\ raising = FALSE /\ InitEncoder

\* the same with callbacks that may raise
InitRaise == harness = "lib" /\ raising = TRUE /\ InitEncoder

\* the encoder as the application uses it
InitApp == harness = "app" /\ raising = FALSE /\ InitEncoder

ProcNext ==
    \/ \E p \in Pids, l \in LineIds : ProcWrite(p, l)
    \/ \E p \in Pids, rc \in {0 - SIGKILL, 0 - SIGTERM} \cup ExitCodes : ProcExit(p, rc)

WorkerNext ==
    \/ \E r1, r2, r3 \in BOOLEAN : WReadLine(r1, r2, r3)
    \/ WReadEOF
    \/ \E r1, r2 \in BOOLEAN : WFinish(r1, r2)

CancelNext ==
    \/ CancelCall
    \/ CancelTerminate
    \/ CancelWaitReturns
    \/ CancelWaitTimeout

Next ==
    \/ \E ok \in BOOLEAN, total \in TotalChoices, r \in BOOLEAN : LibStart(ok, total, r)
    \/ WaitCall
    \/ WorkerNext
    \/ CancelNext
    \/ ProcNext

NextApp ==
    \/ \E ok \in BOOLEAN, total \in TotalChoices : GuiStart(ok, total)
    \/ GuiDeliver
    \/ WorkerNext
    \/ CancelNext
    \/ ProcNext

NextApi ==
    \/ Next
    \/ \E ok \in BOOLEAN : ApiRestart(ok)

Spec == Init /\ [][Next]_vars

SpecRaise == InitRaise /\ [][Next]_vars

SpecApp == InitApp /\ [][NextApp]_vars

SpecApi == Init /\ [][NextApi]_vars

-----------------------------------------------------------------------------
(* FFmpegCommandBuilder.  An argument is a text (a sequence of atoms); the  *)
(* argument list is a sequence of arguments.                               *)

MaxBuilds == 2

Comma == ","

\* sep.join(parts)
RECURSIVE Join(_, _)
Join(parts, sep) ==
    IF parts = <<>> THEN <<>>
    ELSE IF Len(parts) = 1 THEN parts[1]
    ELSE parts[1] \o <<sep>> \o Join(Tail(parts), sep)

\* text.split(sep): the pieces between the atoms equal to sep
RECURSIVE Split(_, _)
Split(text, sep) ==
    IF \E i \in 1..Len(text) : text[i] = sep
    THEN LET i == CHOOSE k \in 1..Len(text) :
                    text[k] = sep /\ \A m \in 1..(k - 1) : text[m] # sep
         IN  <<SubSeq(text, 1, i - 1)>> \o Split(SubSeq(text, i + 1, Len(text)), sep)
    ELSE <<text>>

\* str(x) of a Python float with one decimal, x given in tenths (QDoubleSpinBox
\* with setDecimals(1), filter_settings_widget.py:211-213)
FloatStr(t) == NatStr(t \div 10) \o <<".">> \o NatStr(t % 10)

NoStart == -1

FfmpegPath == <<"ffmpeg">>

\* the EncodingConfig defaults (models.py:37-88) with a detected contiguous sequence
DefaultConfig ==
    [input_folder |-> <<"/in">>,
     output_folder |-> <<"/out">>,
     output_filename |-> <<"timelapse.mp4">>,
     has_sequence |-> TRUE,
     pattern |-> <<"IMG_", "%04d", ".jpg">>,
     seq_needs_padding |-> FALSE,
     seq_use_concat |-> FALSE,
     concat_file |-> <<>>,
     framerate |-> 25,
     codec |-> "libx264",
     crf |-> 18,
     preset |-> "medium",
     output_resolution |-> <<"original">>,
     custom_resolution |-> <<>>,
     profile |-> "high",
     level |-> "4.0",
     pixel_format |-> "yuv420p",
     movflags_faststart |-> TRUE,
     start_number |-> NoStart,
     pattern_type |-> "sequential",
     custom_args |-> <<>>,
     deflicker_enabled |-> FALSE,
     deflicker_mode |-> "pm",
     deflicker_size |-> 10,
     crop_enabled |-> FALSE,
     crop_x |-> 0, crop_y |-> 0, crop_w |-> 0, crop_h |-> 0,
     rotate_enabled |-> FALSE,
     rotate_angle |-> 0,
     flip_enabled |-> FALSE,
     flip_horizontal |-> FALSE,
     flip_vertical |-> FALSE]

\* EncodingConfig.needs_padding (models.py:95-100)
needs_padding(c) == IF c.has_sequence THEN c.seq_needs_padding ELSE FALSE

\* EncodingConfig.use_concat (models.py:102-107)
use_concat(c) == IF c.has_sequence THEN c.seq_use_concat ELSE FALSE

\* EncodingConfig.output_path (models.py:90-93)
output_path(c) == c.output_folder \o <<"/">> \o c.output_filename

\* _build_input_pattern (lines 109-126)
BuildInputPattern(c) ==
    IF c.pattern_type = "glob"
    THEN <<"glob:">> \o c.input_folder \o <<"/*.jpg">>
    ELSE IF c.has_sequence
    THEN c.input_folder \o <<"/">> \o c.pattern
    ELSE c.input_folder \o <<"/">> \o <<"img_%04d.jpg">>

\* a faulty variant of the input options: -framerate is appended after -i
AddInputOptionsRateLast(parts, c) ==
    IF use_concat(c)
    THEN IF c.concat_file # <<>>
         THEN parts \o << <<"-f">>, <<"concat">>, <<"-safe">>, <<"0">>, <<"-i">>,
                          c.concat_file >>
         ELSE parts
    ELSE parts \o (IF c.start_number # NoStart
                   THEN << <<"-start_number">>, Str(c.start_number) >>
                   ELSE <<>>)
               \o << <<"-i">>, BuildInputPattern(c) >>
               \o << <<"-framerate">>, Str(c.framerate) >>

\* _add_input_options (lines 84-107)
AddInputOptions(parts, c) ==
    IF use_concat(c)
    THEN IF c.concat_file # <<>>
         THEN parts \o << <<"-f">>, <<"concat">>, <<"-safe">>, <<"0">>, <<"-i">>,
                          c.concat_file >>
         ELSE parts
    ELSE parts \o << <<"-framerate">>, Str(c.framerate) >>
               \o (IF c.start_number # NoStart
                   THEN << <<"-start_number">>, Str(c.start_number) >>
                   ELSE <<>>)
               \o << <<"-i">>, BuildInputPattern(c) >>

\* _build_scale_filter (lines 175-197); <<>> is the empty string
BuildScaleFilter(c) ==
    IF c.output_resolution = <<"original">> THEN <<>>
    ELSE IF c.output_resolution = <<"custom">> /\ c.custom_resolution # <<>>
    THEN LET wh == Split(c.custom_resolution, "x")
         IN  <<"scale=">> \o wh[1] \o <<":">> \o wh[2]
    ELSE IF c.output_resolution # <<"custom">>
    THEN LET wh == Split(c.output_resolution, "x")
         IN  <<"scale=">> \o wh[1] \o <<":">> \o wh[2]
    ELSE <<>>

\* _build_crop_filter (lines 199-206)
BuildCropFilter(c) ==
    <<"crop=">> \o Str(c.crop_w) \o <<":">> \o Str(c.crop_h) \o <<":">>
                \o Str(c.crop_x) \o <<":">> \o Str(c.crop_y)

\* _build_rotate_filter (lines 208-231); the angle is held in tenths of a degree
\* a faulty variant of the rotate filter: the transpose directions of 90 and
\* 270 degrees are exchanged
BuildRotateFilterSwapped(c) ==
    IF c.rotate_angle = 0 THEN <<>>
    ELSE IF c.rotate_angle = 900 THEN <<"transpose=", "2">>
    ELSE IF c.rotate_angle = 1800 THEN <<"transpose=", "2", Comma, "transpose=", "2">>
    ELSE IF c.rotate_angle = 2700 THEN <<"transpose=", "1">>
    ELSE <<"rotate=">> \o FloatStr(c.rotate_angle) \o <<"*PI/180:c=black:ow='iw':oh='ih'">>

BuildRotateFilter(c) ==
    IF c.rotate_angle = 0 THEN <<>>
    ELSE IF c.rotate_angle = 900 THEN <<"transpose=", "1">>
    ELSE IF c.rotate_angle = 1800 THEN <<"transpose=", "2", Comma, "transpose=", "2">>
    ELSE IF c.rotate_angle = 2700 THEN <<"transpose=", "2">>
    ELSE <<"rotate=">> \o FloatStr(c.rotate_angle) \o <<"*PI/180:c=black:ow='iw':oh='ih'">>

\* _build_flip_filters (lines 233-248)
BuildFlipFilters(c) ==
    (IF c.flip_horizontal THEN << <<"hflip">> >> ELSE <<>>)
    \o (IF c.flip_vertical THEN << <<"vflip">> >> ELSE <<>>)

\* _build_deflicker_filter (lines 250-260)
BuildDeflickerFilter(c) ==
    <<"deflicker=", "mode=", c.deflicker_mode, ":size=">> \o Str(c.deflicker_size)

\* a filter is appended only if its text is not empty (`if scale_filter:` etc.)
IfText(f) == IF f # <<>> THEN <<f>> ELSE <<>>

\* a faulty variant of the transform filters: crop is appended before rotate
\* and flip
TransformFiltersCropFirst(c) ==
    (IF c.crop_enabled THEN IfText(BuildCropFilter(c)) ELSE <<>>)
    \o (IF c.rotate_enabled THEN IfText(BuildRotateFilter(c)) ELSE <<>>)
    \o (IF c.flip_enabled THEN BuildFlipFilters(c) ELSE <<>>)

\* the transform filters of _add_filter_options in the order they are appended:
\* rotate, flip, crop (lines 145-160)
TransformFilters(c) ==
    (IF c.rotate_enabled THEN IfText(BuildRotateFilter(c)) ELSE <<>>)
    \o (IF c.flip_enabled THEN BuildFlipFilters(c) ELSE <<>>)
    \o (IF c.crop_enabled THEN IfText(BuildCropFilter(c)) ELSE <<>>)

\* a faulty variant of the filter list: format is appended before deflicker
FiltersFormatEarly(c) ==
    (IF use_concat(c) THEN << <<"fps=">> \o Str(c.framerate) >> ELSE <<>>)
    \o (IF needs_padding(c) THEN << <<"pad=", "ceil(iw/2)*2:ceil(ih/2)*2">> >> ELSE <<>>)
    \o IfText(BuildScaleFilter(c))
    \o TransformFilters(c)
    \o << <<"format=", c.pixel_format>> >>
    \o (IF c.deflicker_enabled THEN IfText(BuildDeflickerFilter(c)) ELSE <<>>)

\* the list `filters` of _add_filter_options (lines 130-169)
Filters(c) ==
    (IF use_concat(c) THEN << <<"fps=">> \o Str(c.framerate) >> ELSE <<>>)
    \o (IF needs_padding(c) THEN << <<"pad=", "ceil(iw/2)*2:ceil(ih/2)*2">> >> ELSE <<>>)
    \o IfText(BuildScaleFilter(c))
    \o TransformFilters(c)
    \o (IF c.deflicker_enabled THEN IfText(BuildDeflickerFilter(c)) ELSE <<>>)
    \o << <<"format=", c.pixel_format>> >>

\* _add_filter_options (lines 128-173)
AddFilterOptions(parts, c) ==
    IF Filters(c) # <<>>
    THEN parts \o << <<"-vf">>, Join(Filters(c), Comma) >>
    ELSE parts

\* _map_preset_to_av1 (lines 262-279)
MapPresetToAv1(c) ==
    CASE c.preset = "ultrafast" -> 13
      [] c.preset = "superfast" -> 12
      [] c.preset = "veryfast" -> 10
      [] c.preset = "faster" -> 8
      [] c.preset = "fast" -> 6
      [] c.preset = "medium" -> 5
      [] c.preset = "slow" -> 4
      [] c.preset = "slower" -> 2
      [] c.preset = "veryslow" -> 0
      [] OTHER -> 5

\* a faulty variant of the profile mapping: the H.264 name is passed on
MapProfileKeep(profile) == profile

\* _map_profile_to_h265 (lines 281-299)
MapProfileToH265(profile) ==
    CASE profile = "baseline" -> "main"
      [] profile = "main" -> "main"
      [] profile = "high" -> "main"
      [] profile = "high10" -> "main10"
      [] profile = "high422" -> "main422-10"
      [] profile = "high444" -> "main444-8"
      [] OTHER -> "main"

\* _add_codec_options (lines 301-324)
AddCodecOptions(parts, c) ==
    parts \o << <<"-c:v">>, <<c.codec>> >>
    \o (IF c.codec \in {"libx264", "libx265"}
        THEN << <<"-preset">>, <<c.preset>> >>
             \o (IF c.codec = "libx265"
                 THEN << <<"-profile:v">>, <<MapProfileToH265(c.profile)>>,
                         <<"-tag:v">>, <<"hvc1">> >>
                 ELSE << <<"-profile:v">>, <<c.profile>>, <<"-level">>, <<c.level>> >>)
        ELSE IF c.codec = "libsvtav1"
        THEN << <<"-preset">>, Str(MapPresetToAv1(c)) >>
        ELSE <<>>)

\* _add_quality_options (lines 326-328)
AddQualityOptions(parts, c) == parts \o << <<"-crf">>, Str(c.crf) >>

\* shlex.split of custom arguments written without quotes: the pieces between
\* blanks, empty pieces dropped
ShlexSplit(text) == SelectSeq(Split(text, " "), LAMBDA w : w # <<>>)

\* _add_output_options (lines 330-340)
AddOutputOptions(parts, c) ==
    parts
    \o (IF c.movflags_faststart THEN << <<"-movflags">>, <<"+faststart">> >> ELSE <<>>)
    \o (IF c.custom_args # <<>> THEN ShlexSplit(c.custom_args) ELSE <<>>)

\* _add_output_file (lines 342-344)
AddOutputFile(parts, c) == Append(parts, output_path(c))

\* a faulty variant of the start of build(): command_parts is not reset
BuildStartKeep(old) == old \o << FfmpegPath, <<"-y">> >>

\* the list build() starts from (lines 59-62); old is self.command_parts so far
BuildStart(old) == << FfmpegPath, <<"-y">> >>

\* FFmpegCommandBuilder.build (lines 52-72) on a builder whose command_parts is old
BuildParts(old, c) ==
    AddOutputFile(
      AddOutputOptions(
        AddQualityOptions(
          AddCodecOptions(
            AddFilterOptions(
              AddInputOptions(BuildStart(old), c), c), c), c), c), c)

-----------------------------------------------------------------------------
(* Specification of the command builder: build() called repeatedly, on the  *)
(* same builder or on a new one, for a configuration drawn from Configs.    *)

Manifest == <<"/in", "/", "concat_list.txt">>

Resolutions ==
    { << <<"original">>, <<>> >>,
      << <<"custom">>, <<"1280", "x", "720">> >>,
      << <<"custom">>, <<>> >>,
      << <<"1920", "x", "1080">>, <<>> >> }

\* rotation angles in tenths of a degree: 0, 12.5, 90, 180, 270
Angles == {0, 125, 900, 1800, 2700}

\* every combination of the settings the filter graph depends on
FilterConfigs ==
    { [DefaultConfig EXCEPT
          !.seq_use_concat = uc,
          !.concat_file = IF uc THEN Manifest ELSE <<>>,
          !.seq_needs_padding = np,
          !.output_resolution = res[1],
          !.custom_resolution = res[2],
          !.rotate_enabled = re,
          !.rotate_angle = an,
          !.flip_enabled = fl[1],
          !.flip_horizontal = fl[2],
          !.flip_vertical = fl[3],
          !.crop_enabled = ce,
          !.crop_x = IF ce THEN 10 ELSE 0,
          !.crop_y = IF ce THEN 20 ELSE 0,
          !.crop_w = IF ce THEN 640 ELSE 0,
          !.crop_h = IF ce THEN 480 ELSE 0,
          !.deflicker_enabled = de] :
        uc \in BOOLEAN, np \in BOOLEAN, res \in Resolutions, re \in BOOLEAN,
        an \in Angles, fl \in BOOLEAN \X BOOLEAN \X BOOLEAN, ce \in BOOLEAN,
        de \in BOOLEAN }

\* every combination of the settings the other stages depend on
StageConfigs ==
    { [DefaultConfig EXCEPT
          !.has_sequence = sq[1],
          !.seq_use_concat = sq[2],
          !.concat_file = IF sq[3] THEN Manifest ELSE <<>>,
          !.codec = cd,
          !.preset = ps,
          !.profile = pf,
          !.start_number = sn,
          !.pattern_type = pt,
          !.movflags_faststart = mf,
          !.custom_args = ca] :
        sq \in BOOLEAN \X BOOLEAN \X BOOLEAN,
        cd \in {"libx264", "libx265", "libsvtav1"},
        ps \in {"medium", "ultrafast", "placebo"},
        pf \in {"high", "high10"},
        sn \in {NoStart, 1},
        pt \in {"sequential", "glob"},
        mf \in BOOLEAN,
        ca \in {<<>>, <<"-an", " ", " ", "-threads", " ", "2">>} }

\* every codec with every preset and profile name, and names that are unknown
CodecConfigs ==
    { [DefaultConfig EXCEPT !.codec = cd, !.preset = ps, !.profile = pf] :
        cd \in {"libx264", "libx265", "libsvtav1", "libvpx-vp9"},
        ps \in {"ultrafast", "superfast", "veryfast", "faster", "fast", "medium",
                "slow", "slower", "veryslow", "placebo"},
        pf \in {"baseline", "main", "high", "high10", "high422", "high444", "other"} }

Configs == FilterConfigs \cup StageConfigs \cup CodecConfigs

\* FFmpegCommandBuilder(config, ffmpeg_path) (lines 40-50)
BuilderNew ==
    /\ command_parts # <<>>
    /\ command_parts' = <<>>
    /\ UNCHANGED <<config, built>>
    /\ UNCHANGED encVars
    /\ UNCHANGED guiVars
    /\ UNCHANGED utilVars

\* builder.build() (lines 52-72); the list returned is recorded in built
Build ==
    /\ Len(built) < MaxBuilds
    /\ command_parts' = BuildParts(command_parts, config)
    /\ built' = Append(built, command_parts')
    /\ UNCHANGED config
    /\ UNCHANGED encVars
    /\ UNCHANGED guiVars
    /\ UNCHANGED utilVars

InitBuild ==
    /\ harness = "lib" /\ raising = FALSE
    /\ inst = 0 /\ process = 0 /\ total_frames = 0 /\ procs = <<>>
    /\ wpc = "idle" /\ w_iter = 0 /\ wret = "None"
    /\ cpc = "idle" /\ ncancel = 0 /\ sret = "None"
    /\ fin = <<>> /\ last = NoLast
    /\ is_encoding = FALSE /\ signals = <<>> /\ reported = {}
    /\ config \in Configs
    /\ command_parts = <<>>
    /\ built = <<>>
    /\ arg = NoCall
    /\ ret = NoCall

NextBuild ==
    \/ BuilderNew
    \/ Build

SpecBuild == InitBuild /\ [][NextBuild]_vars

-----------------------------------------------------------------------------
(* Properties of the encoder.                                              *)

\* the run of the current encoder is over: start_encoding failed, or
\* wait_for_completion has returned or raised
RunOver == sret \in {"False", "Raised"} \/ (sret = "True" /\ wret # "None")

\* C1: in every run on_finished is invoked exactly once: never twice, and once
\* the run is over not zero times, also when a callback raises.
C1_FinishedExactlyOnce ==
    /\ Len(fin) <= 1
    /\ RunOver => Len(fin) = 1

\* C2: an encode is never shown to the user both as Failed and as Cancelled,
\* however cancel_encoding interleaves with the read loop.
C2_SingleTerminalState == ~({"Failed", "Cancelled"} \subseteq reported)

\* the subprocess was ended by the signal cancel_encoding sent
EndedByCancel(p) ==
    /\ ~procs[p].alive
    /\ \/ procs[p].term /\ procs[p].rc = 0 - SIGTERM
       \/ procs[p].killed /\ procs[p].rc = 0 - SIGKILL

\* C3: when cancel_encoding ended the encode, on_finished gets success = false
\* and a message other than the "failed with code N" message of a failed exit.
C3_CancelNotAnError ==
    \A i \in 1..Len(fin) :
        (fin[i].via = "exit" /\ EndedByCancel(fin[i].pid))
            => /\ ~fin[i].success
               /\ fin[i].msg # MsgFailedCode(procs[fin[i].pid].rc)

\* wait_for_completion has returned without an exception in its read loop
ReturnedCleanly ==
    /\ sret = "True" /\ wret # "None"
    /\ \A i \in 1..Len(fin) : fin[i].via # "error"

\* C4: exit code 0 is reported as success = true and wait_for_completion returns
\* true; any other exit code N is reported as success = false with a message
\* that contains N, and wait_for_completion returns false.
C4_ExitCodeMapping ==
    /\ ReturnedCleanly => Len(fin) = 1 /\ fin[1].via = "exit"
    /\ \A i \in 1..Len(fin) :
          fin[i].via = "exit" =>
            LET p == fin[i].pid
                rc == procs[p].rc
            IN  /\ ~procs[p].alive
                /\ rc = 0 => fin[i].success /\ wret = "True"
                /\ rc # 0 => /\ ~fin[i].success
                             /\ Contains(fin[i].msg, Str(rc))
                             /\ wret = "False"

\* a run that ended with a non-zero exit code of the subprocess's own
C4_Witness ==
    /\ Len(fin) = 1 /\ fin[1].via = "exit"
    /\ procs[fin[1].pid].rc = 1
    /\ wret = "False"

\* C5: cancel_encoding called when the subprocess has exited, or when none was
\* started, does nothing: it neither enters terminate/kill nor invokes a
\* callback, and what was reported and returned stays as it was.
C5_CancelAfterExitNoop ==
    [][ (ncancel' = ncancel + 1 /\ (process = 0 \/ ~Running(process)))
          => /\ cpc' = "idle"
             /\ procs' = procs
             /\ fin' = fin
             /\ last' = last
             /\ signals' = signals
             /\ wret' = wret /\ sret' = sret /\ wpc' = wpc ]_vars

\* cancel_encoding was called after the outcome was reported, with no signal sent
C5_Witness ==
    /\ ncancel = 1 /\ cpc = "idle"
    /\ process # 0
    /\ ~procs[process].alive /\ ~procs[process].term /\ ~procs[process].killed
    /\ Len(fin) = 1 /\ wret # "None"

\* C6: no two subprocesses spawned by the same encoder are alive at once.
C6_OneSubprocessPerInstance ==
    \A p, q \in Pids :
        (p # q /\ procs[p].alive /\ procs[q].alive) => procs[p].owner # procs[q].owner

\* C7: for the line read last, on_output got the line verbatim, and on_progress
\* was invoked iff the total is known and a frame number was parsed from it.
C7_CallbacksPerLine ==
    last.line # 0 =>
        /\ last.output = LineText[last.line]
        /\ (last.progress # NoPercent)
             <=> (total_frames # 0 /\ ParseFrame(LineText[last.line]) # NoFrame)

-----------------------------------------------------------------------------
(* Properties of the command builder.                                      *)

\* the value of the -vf option of an argument list
VfOf(args) == args[(CHOOSE k \in 1..Len(args) : args[k] = <<"-vf">>) + 1]

\* the filter tokens of a -vf value
Tokens(vf) == Split(vf, Comma)

\* the place of a filter token in the order fps, pad, scale, rotate/transpose,
\* hflip/vflip, crop, deflicker, format (0: none of them)
Rank(tok) ==
    IF tok = <<>> THEN 0
    ELSE CASE tok[1] = "fps=" -> 1
           [] tok[1] = "pad=" -> 2
           [] tok[1] = "scale=" -> 3
           [] tok[1] \in {"rotate=", "transpose="} -> 4
           [] tok[1] \in {"hflip", "vflip"} -> 5
           [] tok[1] = "crop=" -> 6
           [] tok[1] = "deflicker=" -> 7
           [] tok[1] = "format=" -> 8
           [] OTHER -> 0

\* C8: build is deterministic and pure: every call for the same configuration,
\* on the same builder or on a new one, returns the same argument list, and a
\* call leaves the configuration as it was.
C8_BuildDeterministic ==
    [][ built' # built
          => /\ config' = config
             /\ \A i \in 1..Len(built') : built'[i] = built'[1] ]_vars

\* build was called a second time on the builder that holds the first result
C8_Witness ==
    /\ Len(built) = 2
    /\ command_parts = built[2]
    /\ config.rotate_enabled /\ config.crop_enabled /\ config.seq_use_concat

C10_RotateTokenBeforeCrop ==
    \A b \in 1..Len(built) :
        (config.rotate_enabled /\ config.crop_enabled) =>
            LET toks == Tokens(VfOf(built[b]))
            IN  \E i \in 1..Len(toks) :
                    /\ Rank(toks[i]) = 4
                    /\ \A j \in 1..Len(toks) : Rank(toks[j]) = 6 => i < j

\* C10 amended: whenever rotate and crop are both enabled the filter string has
\* a crop= token; if the angle is not 0 it also has a rotate= or transpose=
\* token and every such token is placed before the crop= token; if the angle is
\* 0 it has no rotate= or transpose= token.
C10_RotateBeforeCropNonZero ==
    \A b \in 1..Len(built) :
        (config.rotate_enabled /\ config.crop_enabled) =>
            LET toks == Tokens(VfOf(built[b]))
            IN  /\ \E j \in 1..Len(toks) : Rank(toks[j]) = 6
                /\ config.rotate_angle # 0 =>
                      /\ \E i \in 1..Len(toks) : Rank(toks[i]) = 4
                      /\ \A i, j \in 1..Len(toks) :
                            (Rank(toks[i]) = 4 /\ Rank(toks[j]) = 6) => i < j
                /\ config.rotate_angle = 0 =>
                      \A i \in 1..Len(toks) : Rank(toks[i]) # 4

\* a built filter string for rotate by 180 degrees with crop enabled
C10_Witness ==
    /\ built # <<>>
    /\ config.rotate_enabled /\ config.crop_enabled
    /\ config.rotate_angle = 1800

\* the rotate= and transpose= tokens of a token list, in order
IsRotateToken(tok) == Rank(tok) = 4
RotateTokens(toks) == SelectSeq(toks, IsRotateToken)

\* the general rotate filter: rotate=<angle>*PI/180 filled with black
RotateForm(tok, angle) ==
    /\ Len(tok) >= 3
    /\ tok[1] = "rotate="
    /\ SubSeq(tok, 2, Len(tok) - 1) = FloatStr(angle)
    /\ tok[Len(tok)] = "*PI/180:c=black:ow='iw':oh='ih'"

\* the rotate filters for 90, 180 and 270 degrees, and the general form
\* for any other angle if general holds for it
RotateSelection(toks, angle, general) ==
    LET rot == RotateTokens(toks)
    IN  /\ angle = 900 => rot = << <<"transpose=", "1">> >>
        /\ angle = 1800 => rot = << <<"transpose=", "2">>, <<"transpose=", "2">> >>
        /\ angle = 2700 => rot = << <<"transpose=", "2">> >>
        /\ (angle \notin {900, 1800, 2700} /\ general)
              => Len(rot) = 1 /\ RotateForm(rot[1], angle)

\* C11 as stated: with rotation enabled, 90 gives transpose=1, 180 gives
\* transpose=2,transpose=2, 270 gives transpose=2, and any other angle gives a
\* filter rotate=<angle>*PI/180:... filled with black.
C11_RotateSelection ==
    \A b \in 1..Len(built) :
        config.rotate_enabled =>
            RotateSelection(Tokens(VfOf(built[b])), config.rotate_angle, TRUE)

\* C11 amended: with rotation enabled, 90 gives transpose=1, 180 gives
\* transpose=2,transpose=2, 270 gives transpose=2, angle 0 gives no rotate or
\* transpose filter, and any other angle gives rotate=<angle>*PI/180:... filled
\* with black.
C11_RotateSelectionNonZero ==
    \A b \in 1..Len(built) :
        config.rotate_enabled =>
            /\ RotateSelection(Tokens(VfOf(built[b])), config.rotate_angle,
                               config.rotate_angle # 0)
            /\ config.rotate_angle = 0 => RotateTokens(Tokens(VfOf(built[b]))) = <<>>

\* a built filter string for rotation by 12.5 degrees
C11_Witness ==
    /\ built # <<>>
    /\ config.rotate_enabled
    /\ config.rotate_angle = 125
    /\ RotateTokens(Tokens(VfOf(built[1]))) # <<>>

-----------------------------------------------------------------------------
(* Sequence detection (core/sequence_detector.py).  A file name is the     *)
(* sequence of its characters.                                             *)

MaxInt(a, b) == IF a < b THEN b ELSE a

\* the characters of the file names of this model in the order of their code
\* points, by which sorted() compares names
AsciiOrder ==
    <<"'", ".", "/", "0", "1", "2", "3", "4", "5", "6", "7", "8", "9",
      "G", "I", "M", "\\", "_", "a", "b", "g", "j", "n", "p", "t", "x">>

Ord(ch) == CHOOSE i \in 1..Len(AsciiOrder) : AsciiOrder[i] = ch

\* x < y for two names, as Python compares strings
NameLess(x, y) ==
    \E k \in 1..(Len(y)) :
        /\ k <= Len(x) + 1
        /\ \A m \in 1..(k - 1) : x[m] = y[m]
        /\ (k = Len(x) + 1 \/ Ord(x[k]) < Ord(y[k]))

\* the first element of sorted(names), names a non-empty set of names
FirstName(names) == CHOOSE x \in names : \A y \in names \ {x} : NameLess(x, y)

\* the position of the last "." of a name (0: none)
LastDot(name) ==
    IF \E i \in 1..Len(name) : name[i] = "."
    THEN CHOOSE i \in 1..Len(name) :
            name[i] = "." /\ \A m \in (i + 1)..Len(name) : name[m] # "."
    ELSE 0

\* Path.suffix: the last "." and what follows it, unless the name starts or
\* ends with that "."
Suffix(name) ==
    IF LastDot(name) > 1 /\ LastDot(name) < Len(name)
    THEN SubSeq(name, LastDot(name), Len(name))
    ELSE <<>>

\* SUPPORTED_IMAGE_FORMATS (utils/constants.py), the entries the model uses
SupportedImageFormats == { <<".", "j", "p", "g">>, <<".", "p", "n", "g">> }

\* where the run of digits that ends just before position d starts (d: none)
DigitRunStart(name, d) ==
    CHOOSE s \in 1..d :
        /\ \A m \in s..(d - 1) : name[m] \in DigitSet
        /\ (s = 1 \/ name[s - 1] \notin DigitSet)

NoMatch == [matched |-> FALSE]

\* re.match(r'^(.+?)(\d+)(\.\w+)$', name): the prefix is the shortest non-empty
\* one after which only digits, a "." and word characters follow
NameMatch(name) ==
    LET d == LastDot(name)
        p == IF d = 0 THEN 0 ELSE MaxInt(1, DigitRunStart(name, d) - 1)
    IN  IF d = 0 \/ d = Len(name) \/ p + 1 > d - 1
        THEN NoMatch
        ELSE [matched |-> TRUE,
              prefix |-> SubSeq(name, 1, p),
              number_str |-> SubSeq(name, p + 1, d - 1),
              extension |-> SubSeq(name, d, Len(name))]

\* the ascending list of the elements of a finite set of integers
RECURSIVE SortedList(_)
SortedList(S) ==
    IF S = {} THEN <<>>
    ELSE LET lo == CHOOSE x \in S : \A y \in S : x <= y
         IN  <<lo>> \o SortedList(S \ {lo})

SetMin(S) == CHOOSE x \in S : \A y \in S : x <= y
SetMax(S) == CHOOSE x \in S : \A y \in S : y <= x

\* a faulty variant of detect_gaps: a single missing number is not a gap
detect_gaps_two(numbers) ==
    IF numbers = {} THEN [has_gaps |-> FALSE, gaps |-> <<>>]
    ELSE LET missing == SortedList((SetMin(numbers)..SetMax(numbers)) \ numbers)
         IN  [has_gaps |-> Len(missing) > 1, gaps |-> missing]

\* a faulty variant of detect_gaps: the missing numbers are listed downwards
detect_gaps_down(numbers) ==
    IF numbers = {} THEN [has_gaps |-> FALSE, gaps |-> <<>>]
    ELSE LET missing == SortedList((SetMin(numbers)..SetMax(numbers)) \ numbers)
         IN  [has_gaps |-> Len(missing) > 0,
              gaps |-> [i \in 1..Len(missing) |-> missing[Len(missing) + 1 - i]]]

\* detect_gaps (lines 151-170), numbers given as the set of their values
detect_gaps(numbers) ==
    IF numbers = {} THEN [has_gaps |-> FALSE, gaps |-> <<>>]
    ELSE LET missing == SortedList((SetMin(numbers)..SetMax(numbers)) \ numbers)
         IN  [has_gaps |-> Len(missing) > 0, gaps |-> missing]

\* get_image_files (lines 74-90): regular files with a supported suffix
get_image_files(folder) == { f \in folder.files : Suffix(f) \in SupportedImageFormats }

\* analyze_naming_pattern (lines 93-148); pattern |-> FALSE stands for None
analyze_naming_pattern(files) ==
    LET matching == { f \in files : NameMatch(f).matched }
        prefixes == { NameMatch(f).prefix : f \in matching }
        extensions == { NameMatch(f).extension : f \in matching }
        first == NameMatch(FirstName(files))
    IN  IF files = {} \/ matching = {} THEN [pattern |-> FALSE]
        ELSE IF Cardinality(prefixes) # 1 \/ Cardinality(extensions) # 1
        THEN [pattern |-> FALSE]
        ELSE [pattern |-> TRUE,
              prefix |-> CHOOSE x \in prefixes : TRUE,
              padding |-> IF first.matched /\ first.number_str[1] = "0"
                          THEN Len(first.number_str) ELSE 0,
              extension |-> CHOOSE x \in extensions : TRUE,
              numbers |-> { StrNat(NameMatch(f).number_str) : f \in matching }]

\* get_image_info (lines 173-188) of the first image
get_image_info(folder) ==
    IF folder.image.readable
    THEN [width |-> folder.image.width, height |-> folder.image.height, format |-> "JPEG"]
    ELSE [width |-> 0, height |-> 0, format |-> "UNKNOWN"]

None == [kind |-> "none"]
Raised(e) == [kind |-> "raised", exc |-> e]

\* detect_sequence (lines 12-71)
detect_sequence(folder) ==
    IF folder.status \in {"missing", "file"} THEN None
    ELSE IF folder.status = "unreadable" THEN Raised("PermissionError")
    ELSE LET image_files == get_image_files(folder)
             pattern_info == analyze_naming_pattern(image_files)
             g == detect_gaps(pattern_info.numbers)
             img == get_image_info(folder)
         IN  IF image_files = {} THEN None
             ELSE IF ~pattern_info.pattern THEN None
             ELSE [kind |-> "info",
                   pattern |-> IF pattern_info.padding > 0
                               THEN pattern_info.prefix \o <<"%0">>
                                    \o NatStr(pattern_info.padding) \o <<"d">>
                                    \o pattern_info.extension
                               ELSE pattern_info.prefix \o <<"%d">>
                                    \o pattern_info.extension,
                   count |-> Cardinality(image_files),
                   start_number |-> SetMin(pattern_info.numbers),
                   end_number |-> SetMax(pattern_info.numbers),
                   image_width |-> img.width,
                   image_height |-> img.height,
                   image_format |-> img.format,
                   has_gaps |-> g.has_gaps,
                   gaps |-> g.gaps,
                   needs_padding |-> (img.width % 2 # 0) \/ (img.height % 2 # 0),
                   use_concat |-> g.has_gaps,
                   concat_file |-> <<>>]

\* n written with at least width digits
Pad(n, width) ==
    LET s == NatStr(n)
    IN  [i \in 1..MaxInt(width - Len(s), 0) |-> "0"] \o s

JpgExt == <<".", "j", "p", "g">>

\* the files <prefix><number>.jpg for the numbers lo .. lo+n-1 except the one at
\* place removed (0: none is removed)
SeriesFiles(s) ==
    { s.prefix \o Pad(k, s.width) \o JpgExt :
        k \in (s.lo..(s.lo + s.n - 1)) \ (IF s.removed = 0 THEN {} ELSE {s.lo + s.removed - 1}) }

MaxFiles == 4

\* the series of the folders: with a letter as prefix and with no prefix,
\* padded and unpadded, within and across a change in the number of digits
SeriesChoices ==
    { [prefix |-> pf, width |-> wd, lo |-> lo, n |-> n, removed |-> rm] :
        pf \in {<<"a">>, <<>>}, wd \in {0, 2}, lo \in {1, 8, 98},
        n \in 0..MaxFiles, rm \in 0..MaxFiles }

\* IMG_0001.jpg .. IMG_0010.jpg
ImgSeries == [prefix |-> <<"I", "M", "G", "_">>, width |-> 4, lo |-> 1, n |-> 10, removed |-> 0]

\* what else a folder may hold: a file of another prefix, of another extension,
\* an image without a number, a file that is no image, a13.jpg, a1.jpg
ExtraChoices ==
    { {},
      {<<"b", "0", "1">> \o JpgExt},
      {<<"a", "0", "1", ".", "p", "n", "g">>},
      {<<"x">> \o JpgExt},
      {<<"n", ".", "t", "x", "t">>},
      {<<"a", "1", "3">> \o JpgExt},
      {<<"a", "1">> \o JpgExt} }

\* the first image: readable with even or odd dimensions, or unreadable
ImageChoices ==
    { [readable |-> TRUE, width |-> 640, height |-> 480],
      [readable |-> TRUE, width |-> 641, height |-> 480],
      [readable |-> FALSE, width |-> 0, height |-> 0] }

InPath == <<"/in">>

Folder(status, s, extra, img) ==
    [kind |-> "folder", path |-> InPath, status |-> status,
     files |-> SeriesFiles(s) \cup extra, series |-> s, extra |-> extra, image |-> img]

Folders ==
    { Folder("dir", s, x, img) :
        s \in { t \in SeriesChoices \cup {ImgSeries} : t.removed <= t.n },
        x \in ExtraChoices, img \in ImageChoices }
    \cup { Folder(st, ImgSeries, {}, [readable |-> TRUE, width |-> 640, height |-> 480]) :
             st \in {"missing", "file", "unreadable"} }

\* a new EncodingConfig (models.py:36-88): no sequence_info, no start_number
FreshConfig == [DefaultConfig EXCEPT !.has_sequence = FALSE, !.pattern = <<>>]

\* the configuration after on_input_folder_changed merged the result r of
\* detect_sequence for folder f (main_window.py:238-253, 271)
MergeSequence(c, f, r) ==
    IF r.kind = "raised" THEN [c EXCEPT !.input_folder = f.path]
    ELSE IF r.kind = "none"
    THEN [c EXCEPT !.input_folder = f.path, !.has_sequence = FALSE]
    ELSE [c EXCEPT !.input_folder = f.path,
                   !.has_sequence = TRUE,
                   !.pattern = r.pattern,
                   !.seq_needs_padding = r.needs_padding,
                   !.seq_use_concat = r.use_concat,
                   !.concat_file = IF r.use_concat
                                   THEN f.path \o <<"/", "filelist.txt">> ELSE <<>>,
                   !.start_number = r.start_number]

\* MainWindow.on_input_folder_changed (main_window.py:236-283) for the folder arg
on_input_folder_changed ==
    /\ arg.kind = "folder"
    /\ ret = NoCall
    /\ ret' = detect_sequence(arg)
    /\ config' = MergeSequence(config, arg, ret')
    /\ built' = <<>>
    /\ UNCHANGED <<arg, command_parts>>
    /\ UNCHANGED encVars
    /\ UNCHANGED guiVars

InitDetect ==
    /\ harness = "app" /\ raising = FALSE
    /\ inst = 0 /\ process = 0 /\ total_frames = 0 /\ procs = <<>>
    /\ wpc = "idle" /\ w_iter = 0 /\ wret = "None"
    /\ cpc = "idle" /\ ncancel = 0 /\ sret = "None"
    /\ fin = <<>> /\ last = NoLast
    /\ is_encoding = FALSE /\ signals = <<>> /\ reported = {}
    /\ config = FreshConfig
    /\ command_parts = <<>>
    /\ built = <<>>
    /\ arg \in Folders
    /\ ret = NoCall

NextDetect ==
    \/ on_input_folder_changed
    \/ BuilderNew
    \/ Build

SpecDetect == InitDetect /\ [][NextDetect]_vars

-----------------------------------------------------------------------------
(* Properties of sequence detection.                                       *)

\* how often x occurs in an argument list
Count(args, x) == Cardinality({ i \in 1..Len(args) : args[i] = x })

BeginsWith(args, head) == Len(args) >= Len(head) /\ SubSeq(args, 1, Len(head)) = head

\* <folder>/IMG_%04d.jpg
ImgPattern == InPath \o <<"/", "I", "M", "G", "_", "%0", "4", "d", ".", "j", "p", "g">>

\* the folder IMG_0001.jpg .. IMG_0010.jpg was analysed and merged, and the
\* command was built
ImgBuilt ==
    /\ arg.kind = "folder" /\ arg.status = "dir"
    /\ arg.series = ImgSeries /\ arg.extra = {}
    /\ ret # NoCall
    /\ built # <<>>

\* C12 as stated: for IMG_0001.jpg .. IMG_0010.jpg, frame rate 25 and libx264,
\* the arguments (after the executable) begin -y -framerate 25 -i
\* <folder>/IMG_%04d.jpg, end with the output path, and hold -crf and -preset
\* exactly once each.
C12_EndToEnd ==
    ImgBuilt =>
        \A b \in 1..Len(built) :
            /\ BeginsWith(Tail(built[b]),
                          << <<"-y">>, <<"-framerate">>, <<"2", "5">>, <<"-i">>, ImgPattern >>)
            /\ built[b][Len(built[b])] = output_path(config)
            /\ Count(built[b], <<"-crf">>) = 1
            /\ Count(built[b], <<"-preset">>) = 1

\* C12 amended: for IMG_0001.jpg .. IMG_0010.jpg, frame rate 25 and libx264,
\* the argument list begins with the executable, -y -framerate 25
\* -start_number 1 -i <folder>/IMG_%04d.jpg, ends with the output path, and
\* holds -crf and -preset exactly once each.
C12_EndToEndStartNumber ==
    ImgBuilt =>
        \A b \in 1..Len(built) :
            /\ BeginsWith(built[b],
                          << FfmpegPath, <<"-y">>, <<"-framerate">>, <<"2", "5">>,
                             <<"-start_number">>, <<"1">>, <<"-i">>, ImgPattern >>)
            /\ built[b][Len(built[b])] = output_path(config)
            /\ Count(built[b], <<"-crf">>) = 1
            /\ Count(built[b], <<"-preset">>) = 1

\* the command was built for the analysed folder IMG_0001.jpg .. IMG_0010.jpg
C12_Witness ==
    /\ ImgBuilt
    /\ ret.kind = "info" /\ ret.count = 10
    /\ config.codec = "libx264" /\ config.framerate = 25

\* the folder holds a contiguous series of n files with a letter as prefix, of
\* which the one at place removed is missing (0: none), and was analysed
SeriesAnalysed(n, removed) ==
    /\ arg.kind = "folder" /\ arg.status = "dir" /\ arg.extra = {}
    /\ arg.series.prefix = <<"a">>
    /\ arg.series.n = n /\ arg.series.removed = removed
    /\ ret # NoCall

ContiguousAnalysed ==
    /\ arg.kind = "folder" /\ arg.status = "dir" /\ arg.extra = {}
    /\ arg.series.n >= 1 /\ arg.series.removed = 0
    /\ ret # NoCall

\* C14: for a folder of N >= 1 contiguously numbered images of one prefix and
\* one extension, detect_sequence returns a SequenceInfo with count = N,
\* has_gaps = false and use_concat = false.
C14_ContiguousSeries ==
    ContiguousAnalysed =>
        /\ ret.kind = "info"
        /\ ret.count = arg.series.n
        /\ ~ret.has_gaps
        /\ ~ret.use_concat

\* the same for the series whose prefix is a letter
C14_ContiguousSeriesLetterPrefix ==
    (ContiguousAnalysed /\ arg.series.prefix # <<>>) =>
        /\ ret.kind = "info"
        /\ ret.count = arg.series.n
        /\ ~ret.has_gaps
        /\ ~ret.use_concat

\* the numbers of the scanned image files, as their names are matched
ScannedNumbers(folder) ==
    { StrNat(NameMatch(f).number_str) :
        f \in { g \in get_image_files(folder) : NameMatch(g).matched } }

\* C15: every SequenceInfo returned has start_number <= end_number, gaps the
\* ascending list of exactly the integers of start_number..end_number that are
\* the number of no scanned file, has_gaps iff gaps is not empty, and
\* use_concat = has_gaps.
C15_SequenceInfoInvariant ==
    (ret # NoCall /\ arg.kind = "folder" /\ ret.kind = "info") =>
        /\ ret.start_number <= ret.end_number
        /\ \A i, j \in 1..Len(ret.gaps) : i < j => ret.gaps[i] < ret.gaps[j]
        /\ { ret.gaps[i] : i \in 1..Len(ret.gaps) }
             = (ret.start_number..ret.end_number) \ ScannedNumbers(arg)
        /\ ret.has_gaps <=> ret.gaps # <<>>
        /\ ret.use_concat = ret.has_gaps

\* a SequenceInfo with several gaps
C15_Witness ==
    /\ ret # NoCall /\ arg.kind = "folder" /\ ret.kind = "info"
    /\ Len(ret.gaps) >= 2
    /\ ret.use_concat

\* C16: detect_sequence never raises; for a missing or unreadable folder, a
\* folder without image files, one whose image files match no
\* <prefix><digits><.ext> name, or one with more than one prefix or extension
\* it returns none; with an unreadable first image it still returns a
\* SequenceInfo, with width 0, height 0 and format "UNKNOWN".
C16_NeverRaises ==
    (ret # NoCall /\ arg.kind = "folder") =>
        LET images == get_image_files(arg)
            matching == { f \in images : NameMatch(f).matched }
        IN  /\ ret.kind # "raised"
            /\ arg.status # "dir" => ret = None
            /\ (arg.status = "dir" /\ images = {}) => ret = None
            /\ (arg.status = "dir" /\ matching = {}) => ret = None
            /\ (arg.status = "dir"
                  /\ \/ Cardinality({ NameMatch(f).prefix : f \in matching }) > 1
                     \/ Cardinality({ NameMatch(f).extension : f \in matching }) > 1)
                  => ret = None
            /\ (ret.kind = "info" /\ ~arg.image.readable)
                  => /\ ret.image_width = 0 /\ ret.image_height = 0
                     /\ ret.image_format = "UNKNOWN"

-----------------------------------------------------------------------------
(* generate_concat_file (core/sequence_detector.py:191-212).               *)

Quote == "'"
Backslash == "\\"
Newline == "\n"

\* text.replace(old, new) for a single character old
RECURSIVE Replace(_, _, _)
Replace(text, old, new) ==
    IF text = <<>> THEN <<>>
    ELSE (IF text[1] = old THEN new ELSE <<text[1]>>) \o Replace(Tail(text), old, new)

\* a faulty variant of the escaping: quotes are escaped before backslashes are
\* replaced
SafePathQuotesFirst(path) ==
    Replace(Replace(path, Quote, <<Quote, Backslash, Quote, Quote>>), Backslash, <<"/">>)

\* str(abs_path).replace("\\", "/").replace("'", "'\\''") (line 209)
SafePath(path) ==
    Replace(Replace(path, Backslash, <<"/">>), Quote, <<Quote, Backslash, Quote, Quote>>)

\* x inserted into the ascending list of names s, after the names equal to it
RECURSIVE InsertName(_, _)
InsertName(s, x) ==
    IF s = <<>> THEN <<x>>
    ELSE IF NameLess(x, s[1]) THEN <<x>> \o s
    ELSE <<s[1]>> \o InsertName(Tail(s), x)

\* sorted(names)
RECURSIVE SortNames(_)
SortNames(names) ==
    IF names = <<>> THEN <<>>
    ELSE InsertName(SortNames(SubSeq(names, 1, Len(names) - 1)), names[Len(names)])

\* file.resolve() for a file name of the folder dir (no symbolic links)
Resolve(dir, name) == dir \o <<"/">> \o name

\* the text f.write(...) puts out for one file (line 210)
ManifestLine(dir, name) ==
    <<"file", " ", Quote>> \o SafePath(Resolve(dir, name)) \o <<Quote, Newline>>

\* the text written for the sorted list of names
RECURSIVE ManifestText(_, _)
ManifestText(dir, names) ==
    IF names = <<>> THEN <<>>
    ELSE ManifestLine(dir, names[1]) \o ManifestText(dir, Tail(names))

\* generate_concat_file (lines 191-212)
concat_file_of(image_files, dir) ==
    [kind |-> "file",
     path |-> dir \o <<"/", "filelist.txt">>,
     content |-> ManifestText(dir, SortNames(image_files))]

MaxName == 2
MaxImages == 3

\* file names with quotes and backslashes in them
NameChars == {"a", "b", Quote, Backslash}
ManifestNames == UNION { [1..k -> NameChars] : k \in 1..MaxName }

\* l is a list of distinct files
Distinct(l) == \A i, j \in 1..Len(l) : i # j => l[i] # l[j]

ManifestDir == <<"/", "i", "n">>

generate_concat_file ==
    /\ arg.kind = "concat"
    /\ ret = NoCall
    /\ ret' = concat_file_of(arg.image_files, arg.output_path)
    /\ UNCHANGED arg
    /\ UNCHANGED bldVars
    /\ UNCHANGED encVars
    /\ UNCHANGED guiVars

InitManifest ==
    /\ harness = "lib" /\ raising = FALSE
    /\ inst = 0 /\ process = 0 /\ total_frames = 0 /\ procs = <<>>
    /\ wpc = "idle" /\ w_iter = 0 /\ wret = "None"
    /\ cpc = "idle" /\ ncancel = 0 /\ sret = "None"
    /\ fin = <<>> /\ last = NoLast
    /\ is_encoding = FALSE /\ signals = <<>> /\ reported = {}
    /\ config = NoConfig
    /\ command_parts = <<>>
    /\ built = <<>>
    /\ \E k \in 0..MaxImages :
          \E l \in [1..k -> ManifestNames] :
              /\ Distinct(l)
              /\ arg = [kind |-> "concat", image_files |-> l, output_path |-> ManifestDir]
    /\ ret = NoCall

NextManifest == generate_concat_file

SpecManifest == InitManifest /\ [][NextManifest]_vars

\* a path with every backslash replaced by a forward slash, every single
\* quote by the four characters '\''
RECURSIVE EscapedPath(_)
EscapedPath(path) ==
    IF path = <<>> THEN <<>>
    ELSE (IF path[1] = Backslash THEN <<"/">>
          ELSE IF path[1] = Quote THEN <<Quote, Backslash, Quote, Quote>>
          ELSE <<path[1]>>) \o EscapedPath(Tail(path))

\* the lines of a text, each without its newline; the text after the last
\* newline is the last element
LinesOf(text) == Split(text, Newline)

\* C17: the manifest holds one newline-terminated line per image, as many lines
\* as images, in ascending order of the file names, each of the form
\* file '<absolute path>' with every backslash replaced by a forward slash and
\* every single quote by '\''.
C17_ManifestLines ==
    (ret # NoCall /\ arg.kind = "concat") =>
        LET n == Len(arg.image_files)
            lines == LinesOf(ret.content)
        IN  /\ Len(lines) = n + 1
            /\ lines[n + 1] = <<>>
            /\ \E f \in [1..n -> 1..n] :
                  /\ \A i, j \in 1..n : i # j => f[i] # f[j]
                  /\ \A i, j \in 1..n :
                        i < j => ~NameLess(arg.image_files[f[j]], arg.image_files[f[i]])
                  /\ \A i \in 1..n :
                        lines[i] = <<"file", " ", Quote>>
                                   \o EscapedPath(arg.output_path \o <<"/">>
                                                  \o arg.image_files[f[i]])
                                   \o <<Quote>>

\* a manifest of three files, given out of order, one with a quote and a
\* backslash in its name
C17_Witness ==
    /\ ret # NoCall /\ arg.kind = "concat"
    /\ Len(arg.image_files) = 3
    /\ NameLess(arg.image_files[3], arg.image_files[1])
    /\ arg.image_files[2] = <<Quote, Backslash>>

-----------------------------------------------------------------------------
(* Aspect ratio utilities (utils/aspect_ratio.py).                         *)

\* int(round(a / b)) for integers a and b # 0: the nearest integer, a tie
\* going to the even one
RoundDiv(a, b) ==
    LET n == IF b < 0 THEN 0 - a ELSE a
        d == IF b < 0 THEN 0 - b ELSE b
        q == n \div d
        r == n - q * d
    IN  IF 2 * r < d THEN q
        ELSE IF 2 * r > d THEN q + 1
        ELSE IF q % 2 = 0 THEN q ELSE q + 1

\* a faulty variant of the rounding to even: the value is left as it is
KeepOdd(v) == v

\* (v // 2) * 2
Even(v) == (v \div 2) * 2

MinSize == 32

\* calculate_height_from_width (lines 95-122), round_to_even left at True
calculate_height_from_width(width, ratio_w, ratio_h) ==
    IF ratio_w = 0 THEN MinSize
    ELSE MaxInt(MinSize, Even(RoundDiv(width * ratio_h, ratio_w)))

\* calculate_width_from_height (lines 125-150), round_to_even left at True
calculate_width_from_height(height, ratio_w, ratio_h) ==
    IF ratio_h = 0 THEN MinSize
    ELSE MaxInt(MinSize, Even(RoundDiv(height * ratio_w, ratio_h)))

\* width_ratio < height_ratio (lines 195-198): max_w / w against max_h / h,
\* either taken as 1 if its divisor is not positive
WidthMoreConstrained(w, h, max_w, max_h) ==
    IF w > 0 /\ h > 0 THEN max_w * h < max_h * w
    ELSE IF w > 0 THEN max_w < w
    ELSE IF h > 0 THEN h < max_h
    ELSE FALSE

\* the dimensions chosen by lines 181-214, before they are made even
FitDimensions(w, h, ratio_w, ratio_h, max_w, max_h) ==
    LET height_from_width == calculate_height_from_width(w, ratio_w, ratio_h)
        width_from_height == calculate_width_from_height(h, ratio_w, ratio_h)
    IN  IF height_from_width <= max_h /\ w <= max_w
        THEN <<w, height_from_width>>
        ELSE IF width_from_height <= max_w /\ h <= max_h
        THEN <<width_from_height, h>>
        ELSE IF WidthMoreConstrained(w, h, max_w, max_h)
        THEN IF calculate_height_from_width(max_w, ratio_w, ratio_h) > max_h
             THEN <<calculate_width_from_height(max_h, ratio_w, ratio_h), max_h>>
             ELSE <<max_w, calculate_height_from_width(max_w, ratio_w, ratio_h)>>
        ELSE IF calculate_width_from_height(max_h, ratio_w, ratio_h) > max_w
             THEN <<max_w, calculate_height_from_width(max_w, ratio_w, ratio_h)>>
             ELSE <<calculate_width_from_height(max_h, ratio_w, ratio_h), max_h>>

\* the position chosen for the anchor (lines 225-246)
AnchorPosition(x, y, w, h, new_w, new_h, anchor) ==
    CASE anchor = "center" ->
            <<(x + w \div 2) - new_w \div 2, (y + h \div 2) - new_h \div 2>>
      [] anchor = "topleft" -> <<x, y>>
      [] anchor = "topright" -> <<(x + w) - new_w, y>>
      [] anchor = "bottomleft" -> <<x, (y + h) - new_h>>
      [] anchor = "bottomright" -> <<(x + w) - new_w, (y + h) - new_h>>
      [] OTHER -> <<x, y>>

\* constrain_rect_to_ratio (lines 153-257)
constrain_rect_to_ratio(x, y, w, h, ratio_w, ratio_h, max_w, max_h, anchor) ==
    LET fit == FitDimensions(w, h, ratio_w, ratio_h, max_w, max_h)
        new_w == MaxInt(MinSize, Even(fit[1]))
        new_h == MaxInt(MinSize, Even(fit[2]))
        pos == AnchorPosition(x, y, w, h, new_w, new_h, anchor)
        new_x == MaxInt(0, Min(pos[1], max_w - new_w))
        new_y == MaxInt(0, Min(pos[2], max_h - new_h))
    IN  [kind |-> "rect", x |-> Even(new_x), y |-> Even(new_y),
         width |-> new_w, height |-> new_h]

\* the rectangles, ratios, bounds and anchors constrain_rect_to_ratio is applied to
RectPositions == {-3, 0, 51}
RectSizes == {-2, 0, 31, 40, 101, 300}
RatioParts == {-1, 0, 1, 3, 16}
RectBounds == {1, 20, 32, 33, 101}
Anchors == {"center", "topleft", "topright", "bottomleft", "bottomright", "other"}

\* the state of the program apart from the utility function under study
IdleProgram ==
    /\ harness = "lib" /\ raising = FALSE
    /\ inst = 0 /\ process = 0 /\ total_frames = 0 /\ procs = <<>>
    /\ wpc = "idle" /\ w_iter = 0 /\ wret = "None"
    /\ cpc = "idle" /\ ncancel = 0 /\ sret = "None"
    /\ fin = <<>> /\ last = NoLast
    /\ is_encoding = FALSE /\ signals = <<>> /\ reported = {}
    /\ config = NoConfig
    /\ command_parts = <<>>
    /\ built = <<>>

\* a call of the utility function leaves the rest of the program alone
IdleUnchanged ==
    /\ UNCHANGED arg
    /\ UNCHANGED bldVars
    /\ UNCHANGED encVars
    /\ UNCHANGED guiVars

constrain_rect ==
    /\ arg.kind = "rect"
    /\ ret = NoCall
    /\ ret' = constrain_rect_to_ratio(arg.x, arg.y, arg.w, arg.h, arg.ratio_w,
                                      arg.ratio_h, arg.max_w, arg.max_h, arg.anchor)
    /\ IdleUnchanged

InitRect ==
    /\ IdleProgram
    /\ \E x \in RectPositions, y \in {0, 51}, w \in RectSizes, h \in RectSizes,
          rw \in RatioParts, rh \in {0, 1, 9}, mw \in RectBounds, mh \in {20, 32, 101},
          an \in Anchors :
            arg = [kind |-> "rect", x |-> x, y |-> y, w |-> w, h |-> h,
                   ratio_w |-> rw, ratio_h |-> rh, max_w |-> mw, max_h |-> mh,
                   anchor |-> an]
    /\ ret = NoCall

NextRect == constrain_rect

SpecRect == InitRect /\ [][NextRect]_vars

\* the Rectangle invariant within the bounds max_w, max_h
RectangleInvariant(r, max_w, max_h) ==
    /\ r.x % 2 = 0 /\ r.y % 2 = 0 /\ r.width % 2 = 0 /\ r.height % 2 = 0
    /\ r.width >= MinSize /\ r.height >= MinSize
    /\ r.x >= 0 /\ r.y >= 0
    /\ r.x + r.width <= max_w
    /\ r.y + r.height <= max_h

\* C18 as stated: for any rectangle, ratio, positive bounds and anchor the
\* rectangle returned by constrain_rect_to_ratio is even in x, y, width and
\* height, at least 32 wide and high, and lies within the bounds.
C18_RectangleInvariant ==
    (ret # NoCall /\ arg.kind = "rect") => RectangleInvariant(ret, arg.max_w, arg.max_h)

\* C18 amended: the same for bounds max_w >= 32 and max_h >= 32; for a smaller
\* bound the rectangle returned is still even and at least 32 wide and high,
\* with x >= 0 and y >= 0, and does not fit into that bound.
C18_RectangleInvariantMinBounds ==
    (ret # NoCall /\ arg.kind = "rect") =>
        /\ (arg.max_w >= MinSize /\ arg.max_h >= MinSize)
              => RectangleInvariant(ret, arg.max_w, arg.max_h)
        /\ RectangleInvariant(ret, MaxInt(arg.max_w, ret.x + ret.width),
                              MaxInt(arg.max_h, ret.y + ret.height))
        /\ arg.max_w < MinSize => ret.x + ret.width > arg.max_w
        /\ arg.max_h < MinSize => ret.y + ret.height > arg.max_h

\* a rectangle larger than the bounds in both directions was scaled down around
\* its centre
C18_Witness ==
    /\ ret # NoCall /\ arg.kind = "rect"
    /\ arg.w = 300 /\ arg.h = 300 /\ arg.max_w = 101 /\ arg.max_h = 101
    /\ arg.ratio_w = 16 /\ arg.ratio_h = 9 /\ arg.anchor = "center"
    /\ ret.width < arg.max_w /\ ret.height > MinSize

-----------------------------------------------------------------------------
(* ProgressParser.parse_output as a function of the total and the line.    *)

MaxTotal == 50
MaxFrame == 60

\* an output line of the encoder that reports frame f, or one without a frame
FrameLine(f) ==
    IF f = NoFrame THEN <<"Input", " ", "#", "0", ",", " ", "image2">>
    ELSE <<"frame=", " ", " ">> \o NatStr(f) \o <<" ", "fps=", "2", "5">>

ParseArgs ==
    { [kind |-> "parse", total |-> t, frame |-> f] :
        t \in 0..MaxTotal, f \in {NoFrame} \cup (0..MaxFrame) }

\* parser.set_total_frames(total); parser.parse_output(line)
parse_line ==
    /\ arg.kind = "parse"
    /\ ret = NoCall
    /\ ret' = [kind |-> "progress", info |-> parse_output(arg.total, FrameLine(arg.frame))]
    /\ IdleUnchanged

InitParse == IdleProgram /\ arg \in ParseArgs /\ ret = NoCall

NextParse == parse_line

SpecParse == InitParse /\ [][NextParse]_vars

\* C19: percentage is min(100, floor(100 * frame / total)) whenever the total is
\* known and a frame number, 0 included, was parsed from the line; it is unset
\* when either is absent; a set percentage is within 0..100.
C19_Percentage ==
    (ret # NoCall /\ arg.kind = "parse") =>
        /\ ret.info.current_frame = arg.frame
        /\ (arg.total # 0 /\ arg.frame # NoFrame)
              => ret.info.percentage = Min(100, (100 * arg.frame) \div arg.total)
        /\ (arg.total = 0 \/ arg.frame = NoFrame) => ret.info.percentage = NoPercent
        /\ ret.info.percentage # NoPercent => ret.info.percentage \in 0..100

\* where the percentage differs from min(100, floor(100 * frame / total)):
\* at frame 0, and where 100 * frame / total is 29, 57 or 58
C19_Divergence ==
    (ret # NoCall /\ arg.kind = "parse" /\ arg.total # 0 /\ arg.frame # NoFrame) =>
        LET k == (100 * arg.frame) \div arg.total
        IN  ret.info.percentage =
                IF arg.frame = 0 THEN NoPercent
                ELSE IF (100 * arg.frame) % arg.total = 0 /\ k \in {29, 57, 58} THEN k - 1
                ELSE Min(100, k)

\* ---------------------------------------------------------------------------
\* Ratio strings (utils/aspect_ratio.py)
\* ---------------------------------------------------------------------------

\* Euclid's algorithm
RECURSIVE gcd(_, _)
gcd(a, b) == IF b = 0 THEN a ELSE gcd(b, a % b)

simplify_ratio(width, height) ==
    IF width = 0 \/ height = 0 THEN <<0, 0>>
    ELSE LET divisor == gcd(width, height)
         IN  <<width \div divisor, height \div divisor>>

RECURSIVE Pow10(_)
Pow10(d) == IF d = 0 THEN 1 ELSE 10 * Pow10(d - 1)

\* One side of a ratio string is a decimal numeral: the digits without the
\* point and the number of digits after the point ("2.39" is 239 with 2
\* places, "16" is 16 with 0 places, "1.50" is 150 with 2 places).
MaxW == 240
MaxH == 12
Places == 0..2

\* float(text): the double nearest to the numeral; trailing zeros of the
\* numeral do not change it.  The double is named by its shortest numeral.
RECURSIVE float(_)
float(c) ==
    IF c.places > 0 /\ c.digits % 10 = 0
    THEN float([digits |-> c.digits \div 10, places |-> c.places - 1])
    ELSE c

\* f % 1 == 0
IsWhole(f) == f.places = 0

\* len(str(f).split('.')[1]): str of a whole double is "16.0"
StrPlaces(f) == IF IsWhole(f) THEN 1 ELSE f.places

\* Doubles with one place whose product with 100, and doubles with two places
\* whose product with 100, rounds to just below the exact integer
\* (2.3 * 100 = 229.99999999999997, 0.29 * 100 = 28.999999999999996); digits up
\* to 300.  Products with 10 of doubles with one place are exact in this range.
ShortOnePlace ==
    {23, 41, 46, 51, 82, 87, 92, 97, 102, 164, 169, 174, 179, 184, 189, 194,
     199, 204}

ShortTwoPlaces ==
    {29, 57, 58, 113, 114, 115, 116, 201, 203, 205, 207, 226, 228, 232, 251,
     253, 255}

\* int(f * 10 ** decimals), decimals >= f.places
FloatScaled(f, decimals) ==
    LET exact == f.digits * Pow10(decimals - f.places)
        short == \/ f.places = 1 /\ decimals = 2 /\ f.digits \in ShortOnePlace
                 \/ f.places = 2 /\ decimals = 2 /\ f.digits \in ShortTwoPlaces
    IN  IF short THEN exact - 1 ELSE exact

\* the ratio string: the number of colons and the two numerals around the
\* first one
parse_ratio_string(ratio_str) ==
    IF ratio_str.colons = 0 THEN Raised("ValueError")
    ELSE IF ratio_str.colons + 1 # 2 THEN Raised("ValueError")
    ELSE
        LET w_float == float(ratio_str.w)
            h_float == float(ratio_str.h)
            decimals == MaxInt(StrPlaces(w_float), StrPlaces(h_float))
            w_int == IF ~IsWhole(w_float) \/ ~IsWhole(h_float)
                     THEN FloatScaled(w_float, decimals) ELSE w_float.digits
            h_int == IF ~IsWhole(w_float) \/ ~IsWhole(h_float)
                     THEN FloatScaled(h_float, decimals) ELSE h_float.digits
            r == simplify_ratio(w_int, h_int)
        IN  [kind |-> "ratio", ratio_w |-> r[1], ratio_h |-> r[2]]

parse_ratio ==
    /\ arg.kind = "ratio_str"
    /\ ret = NoCall
    /\ ret' = parse_ratio_string(arg)
    /\ IdleUnchanged

InitRatio ==
    /\ IdleProgram
    /\ \E colons \in 0..2, wd \in 0..MaxW, wp \in Places, hd \in 0..MaxH, hp \in Places :
          arg = [kind |-> "ratio_str", colons |-> colons,
                 w |-> [digits |-> wd, places |-> wp],
                 h |-> [digits |-> hd, places |-> hp]]
    /\ ret = NoCall

NextRatio == parse_ratio

SpecRatio == InitRatio /\ [][NextRatio]_vars

\* r is what dividing a and b by their greatest common divisor gives, and
\* (0,0) if either is 0
IsSimplified(r, a, b) ==
    IF a = 0 \/ b = 0 THEN r.ratio_w = 0 /\ r.ratio_h = 0
    ELSE /\ r.ratio_w > 0 /\ r.ratio_h > 0
         /\ r.ratio_w * b = r.ratio_h * a
         /\ \A g \in 2..Min(r.ratio_w, r.ratio_h) :
                ~(r.ratio_w % g = 0 /\ r.ratio_h % g = 0)

WellFormed == ret # NoCall /\ arg.kind = "ratio_str" /\ arg.colons = 1

\* C20: for a well-formed "W:H" the result is simplify(W * 10^d, H * 10^d)
\* with d the larger number of decimal places of the two sides, where simplify
\* divides both by their gcd and gives (0,0) if either is 0.
C20_ParseRatio ==
    WellFormed =>
        LET d == MaxInt(arg.w.places, arg.h.places)
        IN  /\ ret.kind = "ratio"
            /\ IsSimplified(ret, arg.w.digits * Pow10(d - arg.w.places),
                                 arg.h.digits * Pow10(d - arg.h.places))

\* where the result differs: a side whose product with the multiplier falls
\* short of the integer is scaled to one less; all other inputs are as stated
C20_Divergence ==
    WellFormed =>
        LET w == float(arg.w)
            h == float(arg.h)
            d == MaxInt(StrPlaces(w), StrPlaces(h))
            off(f) == IF \/ f.places = 1 /\ d = 2 /\ f.digits \in ShortOnePlace
                         \/ f.places = 2 /\ f.digits \in ShortTwoPlaces
                      THEN 1 ELSE 0
        IN  /\ ret.kind = "ratio"
            /\ IsSimplified(ret, w.digits * Pow10(d - w.places) - off(w),
                                 h.digits * Pow10(d - h.places) - off(h))

\* the two worked examples: "2.39:1" gives (239,100) and "16:9" gives (16,9)
C20_Examples ==
    WellFormed =>
        /\ (arg.w = [digits |-> 239, places |-> 2] /\ arg.h = [digits |-> 1, places |-> 0])
              => (ret.ratio_w = 239 /\ ret.ratio_h = 100)
        /\ (arg.w = [digits |-> 16, places |-> 0] /\ arg.h = [digits |-> 9, places |-> 0])
              => (ret.ratio_w = 16 /\ ret.ratio_h = 9)

-----------------------------------------------------------------------------
(* FFmpegEncoder constructed for a configuration and started: __init__     *)
(* builds the command, start_encoding writes the manifest in concat mode,  *)
(* rebuilds the command and spawns the subprocess (encoder.py:16-87).       *)

\* the files of a set as a list, in ascending order (get_image_files returns
\* sorted(image_files), sequence_detector.py:90)
RECURSIVE ImageList(_)
ImageList(S) ==
    IF S = {} THEN <<>>
    ELSE <<FirstName(S)>> \o ImageList(S \ {FirstName(S)})

\* a faulty variant of line 67: the manifest is not recorded in the configuration
PrepareConcatForget(c, concat_file) == c

\* self.config.sequence_info.concat_file = concat_file (line 67)
PrepareConcat(c, concat_file) == [c EXCEPT !.concat_file = concat_file.path]

\* the guard of line 61
ConcatWanted(c) == use_concat(c) /\ c.has_sequence

\* what __init__ hands to the parser (lines 34-35): sequence_info.count
SequenceCount(c, folder) ==
    IF c.has_sequence THEN detect_sequence(folder).count ELSE 0

\* The caller constructs an FFmpegEncoder for the configuration and calls
\* start_encoding.  mok: the manifest can be written (get_image_files and
\* generate_concat_file return); ok: Popen succeeds.  command_parts is the list
\* the encoder holds as self.command, ret the manifest written by this start.
EncoderStart(mok, ok) ==
    /\ harness = "lib"
    /\ arg.kind = "folder"
    /\ wpc = "idle" /\ cpc = "idle"
    /\ inst < MaxSpawns
    /\ inst = 0 \/ sret # "True" \/ wret # "None"
    /\ ConcatWanted(config) \/ mok
    /\ LET first == BuildParts(<<>>, config)
           written == concat_file_of(ImageList(get_image_files(arg)), config.input_folder)
           rebuilt == ConcatWanted(config) /\ mok
           c == IF rebuilt THEN PrepareConcat(config, written) ELSE config
       IN  /\ config' = c
           /\ built' = IF rebuilt THEN <<first, BuildParts(<<>>, c)>> ELSE <<first>>
           /\ command_parts' = built'[Len(built')]
           /\ ret' = IF rebuilt THEN written ELSE NoCall
           /\ start_encoding(Forget(procs), 0, inst + 1, mok /\ ok, FALSE)
    /\ inst' = inst + 1
    /\ total_frames' = SequenceCount(config, arg)
    /\ ncancel' = 0
    /\ UNCHANGED <<harness, raising, wpc, w_iter, cpc, arg>>
    /\ UNCHANGED guiVars

\* the folders an encoder is started for: a01.jpg .. a03.jpg, the same without
\* a02.jpg, and a folder without images
StartSeries ==
    { [prefix |-> <<"a">>, width |-> 2, lo |-> 1, n |-> 3, removed |-> 0],
      [prefix |-> <<"a">>, width |-> 2, lo |-> 1, n |-> 3, removed |-> 2],
      [prefix |-> <<"a">>, width |-> 2, lo |-> 1, n |-> 0, removed |-> 0] }

StartFolders ==
    { Folder("dir", s, {}, [readable |-> TRUE, width |-> 640, height |-> 480]) :
        s \in StartSeries }

\* the configuration of the application after the folder was analysed
\* (main_window.py:236-253), or one that holds the result of detect_sequence as
\* it is returned, without a manifest
StartConfigs(f) ==
    LET merged == MergeSequence(FreshConfig, f, detect_sequence(f))
    IN  {merged, [merged EXCEPT !.concat_file = <<>>]}

InitStart ==
    /\ harness = "lib" /\ raising = FALSE
    /\ inst = 0 /\ process = 0 /\ total_frames = 0 /\ procs = <<>>
    /\ wpc = "idle" /\ w_iter = 0 /\ wret = "None"
    /\ cpc = "idle" /\ ncancel = 0 /\ sret = "None"
    /\ fin = <<>> /\ last = NoLast
    /\ is_encoding = FALSE /\ signals = <<>> /\ reported = {}
    /\ arg \in StartFolders
    /\ config \in StartConfigs(arg)
    /\ command_parts = <<>>
    /\ built = <<>>
    /\ ret = NoCall

NextStart ==
    \/ \E mok \in BOOLEAN, ok \in BOOLEAN : EncoderStart(mok, ok)
    \/ WaitCall
    \/ WorkerNext
    \/ CancelNext
    \/ ProcNext

SpecStart == InitStart /\ [][NextStart]_vars

\* FFmpegEncoder.is_running (lines 142-149)
is_running == process # 0 /\ Running(process)

\* start_encoding of the current encoder returned false
StartFailed == inst > 0 /\ sret = "False"

\* no subprocess was spawned for the current encoder
NotSpawned == inst > 0 /\ \A p \in Pids : procs[p].owner # inst

\* C21: when the subprocess cannot be spawned or the manifest cannot be
\* written, start_encoding returns false, and after it returned false the
\* encoder never runs: no subprocess belongs to it, is_running is false, no
\* read loop is or was active, and on_finished(false, ...) was invoked once,
\* from start_encoding.
C21_StartFailsFast ==
    /\ NotSpawned => StartFailed
    /\ StartFailed =>
        /\ NotSpawned
        /\ ~is_running
        /\ process = 0
        /\ wpc = "idle" /\ w_iter = 0 /\ wret = "None"
        /\ last = NoLast
        /\ Len(fin) = 1
        /\ fin[1].via = "start" /\ ~fin[1].success

\* the manifest could not be written for a folder in concat mode: the start
\* failed
C21_Witness ==
    /\ StartFailed
    /\ ConcatWanted(config)
    /\ ret = NoCall
    /\ Len(fin) = 1

\* C22: whenever wait_for_completion invokes on_finished(false, ...), also from
\* its except clause, the subprocess it reads from has exited at the moment of
\* the call.
C22_ErrorAfterExit ==
    [][(wpc # "idle" /\ Len(fin') > Len(fin)) =>
          \A i \in (Len(fin) + 1)..Len(fin') :
              ~fin'[i].success => ~procs[w_iter].alive]_vars

\* the same for the calls made after process.wait() returned (lines 120-124)
C22_ExitPathAfterExit ==
    [][(wpc # "idle" /\ Len(fin') > Len(fin)) =>
          \A i \in (Len(fin) + 1)..Len(fin') :
              (~fin'[i].success /\ fin'[i].via = "exit") => ~procs[w_iter].alive]_vars

-----------------------------------------------------------------------------
(* Cancellation under fair scheduling.                                     *)

\* a subprocess that received SIGKILL exits
KilledExit(p) == p \in Pids /\ procs[p].killed /\ ProcExit(p, 0 - SIGKILL)

\* The thread inside wait_for_completion and the caller inside cancel_encoding
\* keep running, the wait of line 138 ends after its timeout at the latest, and
\* the operating system ends a process that was sent SIGKILL.
FairCancel ==
    /\ WF_vars(WorkerNext)
    /\ WF_vars(CancelTerminate \/ CancelWaitReturns \/ CancelWaitTimeout)
    /\ \A p \in 1..MaxSpawns : WF_vars(KilledExit(p))

\* one encoder: started, waited for and cancelled
NextCancel ==
    \/ \E ok \in BOOLEAN, total \in TotalChoices : inst = 0 /\ LibStart(ok, total, FALSE)
    \/ WaitCall
    \/ WorkerNext
    \/ CancelNext
    \/ ProcNext

SpecCancel == Init /\ [][NextCancel]_vars /\ FairCancel

\* cancel_encoding found the subprocess p running and is about to terminate it
Cancelling(p) == cpc = "terminate" /\ process = p

Exited(p) == p \in Pids /\ ~procs[p].alive

\* C23: cancel_encoding on a running subprocess requests graceful termination
\* before any kill, kills only a process still alive when the bounded wait has
\* ended, and leads to the subprocess having exited and to the read loop of
\* wait_for_completion having ended and returned.
C23_CancelTerminates ==
    /\ [](\A p \in Pids : procs[p].killed => procs[p].term)
    /\ [][\A p \in Pids :
             (procs'[p].killed /\ ~procs[p].killed) =>
                 (cpc = "wait" /\ process = p /\ procs[p].alive /\ procs[p].term)]_vars
    /\ \A p \in 1..MaxSpawns : Cancelling(p) ~> Exited(p)
    /\ \A p \in 1..MaxSpawns : (Cancelling(p) /\ w_iter = p) ~> (w_iter # p)
    /\ [][(w_iter # 0 /\ w_iter' # w_iter) =>
             (wpc' = "idle" /\ wret' \in {"True", "False"})]_vars

\* a subprocess was killed after the wait timed out, it has exited and
\* wait_for_completion has returned
C23_Witness ==
    \E p \in Pids :
        /\ procs[p].term /\ procs[p].killed /\ ~procs[p].alive
        /\ process = p /\ wpc = "idle" /\ wret # "None" /\ cpc = "idle"

\* the argument list holds the arguments of part next to each other
HoldsRun(args, part) ==
    \E i \in 1..(Len(args) - Len(part) + 1) : SubSeq(args, i, i + Len(part) - 1) = part

\* the subprocess of the current encoder was spawned with self.command, which
\* is command_parts
Spawned == inst > 0 /\ sret = "True"

\* C24: in concat mode the command the subprocess is spawned with was built
\* after the manifest of this start was written and holds -f concat -safe 0
\* -i <manifest> with the path of that manifest; it is not the command built
\* by the constructor.
C24_ConcatCommandRebuilt ==
    (Spawned /\ use_concat(config)) =>
        /\ ret # NoCall /\ ret.kind = "file"
        /\ ret.content = ManifestText(config.input_folder,
                                      ImageList(get_image_files(arg)))
        /\ HoldsRun(command_parts,
                    << <<"-f">>, <<"concat">>, <<"-safe">>, <<"0">>, <<"-i">>, ret.path >>)
        /\ Count(command_parts, <<"-i">>) = 1
        /\ Len(built) = 2
        /\ command_parts = built[2]

\* an encoder constructed for a configuration without a manifest, whose first
\* command names no input, was started in concat mode
C24_Witness ==
    /\ Spawned /\ use_concat(config)
    /\ Count(built[1], <<"-i">>) = 0
    /\ Len(ret.content) > 0

-----------------------------------------------------------------------------
(* EncodingErrorHandler.analyze_error (core/encoder.py:155-217).  The      *)
(* output text is a sequence of pieces, each one of ErrorPieces.            *)

MaxErrorLen == 3

ErrorPieces ==
    {"No such file or directory", "NO SUCH FILE OR DIRECTORY", "Invalid pixel format",
     "height not divisible by 2", "width not divisible by 2", "Permission denied",
     "Codec ", " not found", "Unknown encoder", "x", Newline}

\* re.IGNORECASE: a piece as the pattern spells it
FoldCase(piece) ==
    IF piece = "NO SUCH FILE OR DIRECTORY" THEN "No such file or directory" ELSE piece

\* error_patterns (lines 166-202) in the order of the dict; a pattern is the
\* list of its literal parts, with .* between two parts
error_patterns ==
    << [pattern |-> <<"No such file or directory">>,
        user_msg |-> "Eingabedatei nicht gefunden",
        details |-> "Überprüfen Sie den Input-Ordner und die Dateinamen",
        recoverable |-> TRUE],
       [pattern |-> <<"Invalid pixel format">>,
        user_msg |-> "Ungültiges Pixelformat",
        details |-> "Das gewählte Pixelformat wird vom Codec nicht unterstützt",
        recoverable |-> TRUE],
       [pattern |-> <<"height not divisible by 2">>,
        user_msg |-> "Bildgröße nicht durch 2 teilbar",
        details |-> "Aktivieren Sie den Padding-Filter für ungerade Dimensionen",
        recoverable |-> TRUE],
       [pattern |-> <<"width not divisible by 2">>,
        user_msg |-> "Bildbreite nicht durch 2 teilbar",
        details |-> "Aktivieren Sie den Padding-Filter für ungerade Dimensionen",
        recoverable |-> TRUE],
       [pattern |-> <<"Permission denied">>,
        user_msg |-> "Zugriff verweigert",
        details |-> "Keine Schreibberechtigung für den Output-Ordner",
        recoverable |-> TRUE],
       [pattern |-> <<"Codec ", " not found">>,
        user_msg |-> "Codec nicht gefunden",
        details |-> "Der gewählte Codec ist in Ihrer FFMPEG-Installation nicht verfügbar",
        recoverable |-> FALSE],
       [pattern |-> <<"Unknown encoder">>,
        user_msg |-> "Unbekannter Encoder",
        details |-> "Der gewählte Codec ist nicht verfügbar",
        recoverable |-> FALSE] >>

\* re.search(pattern, error_output, re.IGNORECASE) (line 205); .* matches any
\* text without a newline
Search(pattern, text) ==
    IF Len(pattern) = 1
    THEN \E i \in 1..Len(text) : FoldCase(text[i]) = pattern[1]
    ELSE \E i, j \in 1..Len(text) :
            /\ i < j
            /\ FoldCase(text[i]) = pattern[1]
            /\ FoldCase(text[j]) = pattern[2]
            /\ \A k \in (i + 1)..(j - 1) : text[k] # Newline

\* a faulty variant of the loop: the last matching pattern wins
MatchLast(text) ==
    IF \E k \in 1..Len(error_patterns) : Search(error_patterns[k].pattern, text)
    THEN CHOOSE k \in 1..Len(error_patterns) :
            /\ Search(error_patterns[k].pattern, text)
            /\ \A m \in (k + 1)..Len(error_patterns) : ~Search(error_patterns[m].pattern, text)
    ELSE 0

\* the pattern at which the loop of lines 204-205 returns (0: none)
MatchFirst(text) ==
    IF \E k \in 1..Len(error_patterns) : Search(error_patterns[k].pattern, text)
    THEN CHOOSE k \in 1..Len(error_patterns) :
            /\ Search(error_patterns[k].pattern, text)
            /\ \A m \in 1..(k - 1) : ~Search(error_patterns[m].pattern, text)
    ELSE 0

\* the ErrorInfo returned (lines 206-217)
analyze_error(error_output) ==
    LET k == MatchFirst(error_output)
    IN  IF k # 0
        THEN [kind |-> "ErrorInfo",
              user_message |-> error_patterns[k].user_msg,
              technical_details |->
                  <<error_patterns[k].details, "\n\nTechnische Details:\n">> \o error_output,
              recoverable |-> error_patterns[k].recoverable]
        ELSE [kind |-> "ErrorInfo",
              user_message |-> "Ein unbekannter Fehler ist aufgetreten",
              technical_details |-> error_output,
              recoverable |-> FALSE]

analyze ==
    /\ arg.kind = "error_output"
    /\ ret = NoCall
    /\ ret' = analyze_error(arg.text)
    /\ IdleUnchanged

InitError ==
    /\ IdleProgram
    /\ \E n \in 0..MaxErrorLen : \E t \in [1..n -> ErrorPieces] :
          arg = [kind |-> "error_output", text |-> t]
    /\ ret = NoCall

NextError == analyze

SpecError == InitError /\ [][NextError]_vars

\* the text holds the phrase, in any case
Mentions(text, phrase) == \E i \in 1..Len(text) : FoldCase(text[i]) = phrase

\* the text holds "Codec", then on the same line "not found"
MentionsCodecNotFound(text) ==
    \E i, j \in 1..Len(text) :
        /\ i < j /\ text[i] = "Codec " /\ text[j] = " not found"
        /\ \A k \in i..j : text[k] # Newline

\* what the patterns stand for, in the order the table is to be tried in
Conditions(text) ==
    << Mentions(text, "No such file or directory"),
       Mentions(text, "Invalid pixel format"),
       Mentions(text, "height not divisible by 2"),
       Mentions(text, "width not divisible by 2"),
       Mentions(text, "Permission denied"),
       MentionsCodecNotFound(text),
       Mentions(text, "Unknown encoder") >>

Outcomes ==
    << <<"Eingabedatei nicht gefunden", TRUE>>,
       <<"Ungültiges Pixelformat", TRUE>>,
       <<"Bildgröße nicht durch 2 teilbar", TRUE>>,
       <<"Bildbreite nicht durch 2 teilbar", TRUE>>,
       <<"Zugriff verweigert", TRUE>>,
       <<"Codec nicht gefunden", FALSE>>,
       <<"Unbekannter Encoder", FALSE>> >>

Analysed == ret # NoCall /\ arg.kind = "error_output"

\* C25: the first condition of the table that the text meets, in the order
\* missing input file, invalid pixel format, height, width, permission denied,
\* codec not found, unknown encoder, alone gives the message and the
\* recoverable flag, also when later ones are met; when none is met the result
\* is the unknown error with the raw text as technical detail and recoverable
\* false.
C25_FirstMatchWins ==
    Analysed =>
        LET met == Conditions(arg.text)
        IN  /\ \A k \in 1..7 :
                  (met[k] /\ \A m \in 1..(k - 1) : ~met[m]) =>
                      /\ ret.user_message = Outcomes[k][1]
                      /\ ret.recoverable = Outcomes[k][2]
            /\ (\A k \in 1..7 : ~met[k]) =>
                  /\ ret.user_message = "Ein unbekannter Fehler ist aufgetreten"
                  /\ ret.technical_details = arg.text
                  /\ ~ret.recoverable

\* a text that meets two conditions, the later one of the table first in the text
C25_Witness ==
    /\ Analysed
    /\ arg.text = <<"Unknown encoder", Newline, "Permission denied">>
    /\ ret.user_message = "Zugriff verweigert"

-----------------------------------------------------------------------------
(* Properties of the input and codec stages of the command builder.        *)

\* the input stage of the argument list args built for configuration c
InputStage(args, c) ==
    LET toks == Tokens(VfOf(args))
    IN  /\ Count(args, <<"-i">>) = 1
        /\ IF use_concat(c)
           THEN /\ HoldsRun(args, << <<"-f">>, <<"concat">>, <<"-safe">>, <<"0">>,
                                     <<"-i">>, c.concat_file >>)
                /\ Count(args, <<"-framerate">>) = 0
                /\ toks[1] = <<"fps=">> \o Str(c.framerate)
           ELSE /\ HoldsRun(args,
                            << <<"-framerate">>, Str(c.framerate) >>
                            \o (IF c.start_number # NoStart
                                THEN << <<"-start_number">>, Str(c.start_number) >>
                                ELSE <<>>)
                            \o << <<"-i">>, BuildInputPattern(c) >>)
                /\ \A i \in 1..Len(toks) : toks[i] = <<>> \/ toks[i][1] # "fps="

\* C26: every built argument list holds exactly one -i; in concat mode it
\* holds -f concat -safe 0 -i <manifest>, no -framerate, and its filter string
\* starts with fps=<rate>; otherwise it holds -framerate <fps>, then
\* -start_number N if set, then -i <pattern>, and no fps= filter.
C26_InputStage ==
    \A b \in 1..Len(built) : InputStage(built[b], config)

\* the same for the configurations that name a manifest whenever they are in
\* concat mode
C26_InputStageManifest ==
    (use_concat(config) => config.concat_file # <<>>) =>
        \A b \in 1..Len(built) : InputStage(built[b], config)

\* the argument that follows the first occurrence of option opt
ArgAfter(args, opt) == args[(CHOOSE k \in 1..Len(args) : args[k] = opt) + 1]

\* the preset names from the fastest to the slowest
SpeedOrder ==
    <<"ultrafast", "superfast", "veryfast", "faster", "fast", "medium", "slow",
      "slower", "veryslow">>

\* the preset number the list built for preset name ps and libsvtav1 holds
Av1Number(ps) ==
    StrNat(ArgAfter(BuildParts(<<>>, [DefaultConfig EXCEPT !.codec = "libsvtav1",
                                                           !.preset = ps]),
                    <<"-preset">>))

\* the codec stage of the argument list args built for configuration c
CodecStage(args, c) ==
    /\ c.codec = "libx264" =>
          /\ Count(args, <<"-preset">>) = 1 /\ ArgAfter(args, <<"-preset">>) = <<c.preset>>
          /\ Count(args, <<"-profile:v">>) = 1
          /\ ArgAfter(args, <<"-profile:v">>) = <<c.profile>>
          /\ Count(args, <<"-level">>) = 1 /\ ArgAfter(args, <<"-level">>) = <<c.level>>
          /\ Count(args, <<"-tag:v">>) = 0
    /\ c.codec = "libx265" =>
          /\ Count(args, <<"-preset">>) = 1 /\ ArgAfter(args, <<"-preset">>) = <<c.preset>>
          /\ Count(args, <<"-profile:v">>) = 1
          /\ c.profile \in {"baseline", "main", "high"}
                => ArgAfter(args, <<"-profile:v">>) = <<"main">>
          /\ c.profile = "high10" => ArgAfter(args, <<"-profile:v">>) = <<"main10">>
          /\ c.profile = "high422" => ArgAfter(args, <<"-profile:v">>) = <<"main422-10">>
          /\ c.profile = "high444" => ArgAfter(args, <<"-profile:v">>) = <<"main444-8">>
          /\ Count(args, <<"-tag:v">>) = 1 /\ ArgAfter(args, <<"-tag:v">>) = <<"hvc1">>
          /\ Count(args, <<"-level">>) = 0
    /\ c.codec = "libsvtav1" =>
          /\ Count(args, <<"-preset">>) = 1
          /\ \A i \in 1..Len(ArgAfter(args, <<"-preset">>)) :
                ArgAfter(args, <<"-preset">>)[i] \in DigitSet
          /\ StrNat(ArgAfter(args, <<"-preset">>)) \in 0..13
          /\ c.preset = "ultrafast" => ArgAfter(args, <<"-preset">>) = <<"1", "3">>
          /\ c.preset = "veryslow" => ArgAfter(args, <<"-preset">>) = <<"0">>
          /\ c.preset \notin {SpeedOrder[i] : i \in 1..Len(SpeedOrder)}
                => ArgAfter(args, <<"-preset">>) = <<"5">>
          /\ ArgAfter(args, <<"-preset">>) = NatStr(Av1Number(c.preset))
          /\ \A i, j \in 1..Len(SpeedOrder) :
                i < j => Av1Number(SpeedOrder[i]) > Av1Number(SpeedOrder[j])
          /\ Count(args, <<"-profile:v">>) = 0
          /\ Count(args, <<"-level">>) = 0
          /\ Count(args, <<"-tag:v">>) = 0

\* C27: for libx264 the list holds -preset <name>, -profile:v <profile> and
\* -level <level> and no -tag:v; for libx265 -preset <name>, -profile:v with
\* the profile remapped (baseline, main, high to main; high10 to main10;
\* high422 to main422-10; high444 to main444-8), -tag:v hvc1 and no -level; for
\* libsvtav1 -preset with a number in 0..13 of the table, which falls from 13
\* for ultrafast to 0 for veryslow and is 5 for unknown names, and no
\* -profile:v, -level or -tag:v.
C27_CodecStage ==
    \A b \in 1..Len(built) : CodecStage(built[b], config)

\* a list was built for libx265 with profile high422
C27_Witness ==
    /\ built # <<>>
    /\ config.codec = "libx265" /\ config.profile = "high422"
    /\ ArgAfter(built[1], <<"-profile:v">>) = <<"main422-10">>

-----------------------------------------------------------------------------
(* Order of the callbacks.                                                 *)

\* C28: within one run of an encoder, once on_finished has been invoked no
\* on_progress and no on_output is invoked any more, and the read loop is over,
\* however cancel_encoding interleaves.
C28_FinishedIsLast ==
    /\ [](fin # <<>> => (wpc = "idle" /\ w_iter = 0))
    /\ [][(fin # <<>> /\ inst' = inst) => last' = last]_vars

\* a run that was cancelled while it read lines has reported its end after
\* progress and output callbacks were invoked
C28_Witness ==
    /\ fin # <<>>
    /\ last.line # 0 /\ last.output # <<>>
    /\ ncancel > 0
    /\ \E p \in Pids : procs[p].term

-----------------------------------------------------------------------------
(* The inferred pattern against the files of the folder.                   *)

\* printf of pattern with the number n: %d or %0<width>d is replaced
Substitute(pattern, n) ==
    LET i == CHOOSE k \in 1..Len(pattern) : pattern[k] \in {"%d", "%0"}
    IN  IF pattern[i] = "%d"
        THEN SubSeq(pattern, 1, i - 1) \o NatStr(n) \o SubSeq(pattern, i + 1, Len(pattern))
        ELSE LET j == CHOOSE k \in (i + 1)..Len(pattern) :
                        pattern[k] = "d" /\ \A m \in (i + 1)..(k - 1) : pattern[m] # "d"
             IN  SubSeq(pattern, 1, i - 1)
                 \o Pad(n, StrNat(SubSeq(pattern, i + 1, j - 1)))
                 \o SubSeq(pattern, j + 1, Len(pattern))

\* the image files of the folder from which a number was read
NumberedFiles(folder) == { f \in get_image_files(folder) : NameMatch(f).matched }

InfoReturned == ret # NoCall /\ arg.kind = "folder" /\ ret.kind = "info"

\* C29: whenever a SequenceInfo is returned, the inferred pattern with the
\* number of any scanned file substituted is the name of that file.
C29_PatternReproducesNames ==
    InfoReturned =>
        \A f \in NumberedFiles(arg) :
            Substitute(ret.pattern, StrNat(NameMatch(f).number_str)) = f

\* the same for the folders that hold nothing but the files of one series
C29_PlainSeries ==
    (InfoReturned /\ arg.extra = {}) =>
        \A f \in NumberedFiles(arg) :
            Substitute(ret.pattern, StrNat(NameMatch(f).number_str)) = f

-----------------------------------------------------------------------------
(* count against the numbers of the SequenceInfo.                          *)

\* C30: every SequenceInfo returned by detect_sequence satisfies
\* count + len(gaps) = end_number - start_number + 1.
C30_CountAndGaps ==
    InfoReturned =>
        ret.count + Len(ret.gaps) = ret.end_number - ret.start_number + 1

\* the same for the folders in which every image file gave one number and no
\* two files gave the same number
C30_CountAndGapsOneNumberEach ==
    (/\ InfoReturned
     /\ NumberedFiles(arg) = get_image_files(arg)
     /\ \A f, g \in NumberedFiles(arg) :
            StrNat(NameMatch(f).number_str) = StrNat(NameMatch(g).number_str) => f = g) =>
        ret.count + Len(ret.gaps) = ret.end_number - ret.start_number + 1

====
